---- MODULE Spec2Model ----
(***************************************************************************)
(* Event-registration application on a spreadsheet used as a database.     *)
(* The model covers the companies endpoint (src/app/api/companies/route.ts)*)
(* the registration endpoint (src/app/api/events/register/route.ts and its *)
(* older variant src/unnamed/part_001) and the admin dashboard's listing   *)
(* (src/app/control_admin/page.tsx).  The spreadsheet layer (lib/sheets)   *)
(* and the image host (lib/github) are collaborators whose code is not in  *)
(* the repository snapshot; they are modelled from the specification.      *)
(***************************************************************************)
EXTENDS Integers, Sequences, FiniteSets, TLC

VARIABLES
  companiesSheet,  \* TRUE iff the sheet named 'companies' exists
  companiesData,   \* rows of the 'companies' sheet, header row first
  sheets,          \* company sheets: sheet name -> (event name -> table rows)
  clock,           \* Date.now(), in milliseconds
  last,            \* the last request handled and its response
  reqs,            \* requests in flight (concurrent handling)
  page             \* the state of one registration page open in a browser

vars == <<companiesSheet, companiesData, sheets, clock, last, reqs, page>>

(***************************************************************************)
(* Bounds of the model.                                                    *)
(***************************************************************************)
MaxCompanies == 2   \* rows of the companies table below the header
MaxRegs == 3        \* registration rows of one event table
MaxClock == 2       \* last value of Date.now()
MaxRequests == 2    \* registration requests handled concurrently

(***************************************************************************)
(* JavaScript values.  Every value is a string; the two non-string values  *)
(* the handlers distinguish are written as reserved strings.               *)
(***************************************************************************)
Undefined == "<undefined>"
Null == "<null>"
JsTrue == "<true>"
JsFalse == "<false>"

\* !x of JavaScript for the values above
Falsy(x) == x \in {Undefined, Null, ""}

\* a boolean test that knows true only
IsBooleanTrueOnly(x) == x = JsTrue

\* typeof x === 'boolean'
IsBoolean(x) == x \in {JsTrue, JsFalse}

\* a || b that yields a whatever it is
OrElseFirst(a, b) == a

\* a || b
OrElse(a, b) == IF Falsy(a) THEN b ELSE a

\* data.slice(1)
Slice1(s) == IF s = <<>> THEN <<>> ELSE Tail(s)

\* s.findIndex(p) as the 1-based position of the first match, 0 for -1
\* (matches: the positions at which p holds)
FirstIndex(matches) ==
  IF matches = {} THEN 0 ELSE CHOOSE i \in matches : \A j \in matches : i <= j

\* a cell written to the spreadsheet: null and undefined leave the cell empty
Cell(v) == IF v \in {Undefined, Null} THEN "" ELSE v

(***************************************************************************)
(* The spreadsheet.  A world is the three spreadsheet variables together:  *)
(* cs (companies sheet exists), cd (its rows), sh (the company sheets).    *)
(***************************************************************************)
World == [cs |-> companiesSheet, cd |-> companiesData, sh |-> sheets]

SheetExists(w, name) ==
  IF name = "companies" THEN w.cs ELSE name \in DOMAIN w.sh

\* the rows of a company sheet: those of its tables; empty when no table has a row
SheetRows(tables) ==
  IF \A e \in DOMAIN tables : tables[e] = <<>> THEN <<>>
  ELSE tables[CHOOSE e \in DOMAIN tables : tables[e] # <<>>]

\* getSheetData(name): throws for a sheet that does not exist
getSheetData(w, name) ==
  IF ~SheetExists(w, name) THEN [ok |-> FALSE, val |-> <<>>]
  ELSE IF name = "companies" THEN [ok |-> TRUE, val |-> w.cd]
  ELSE [ok |-> TRUE, val |-> SheetRows(w.sh[name])]

\* getTableData(sheet, table): throws for a sheet or table that does not exist
getTableData(w, name, table) ==
  IF name = "companies" \/ name \notin DOMAIN w.sh THEN [ok |-> FALSE, val |-> <<>>]
  ELSE IF table \notin DOMAIN w.sh[name] THEN [ok |-> FALSE, val |-> <<>>]
  ELSE [ok |-> TRUE, val |-> w.sh[name][table]]

\* addToTable(sheet, table, row): appends one row below the table
addToTable(w, name, table, row) ==
  IF name = "companies" \/ name \notin DOMAIN w.sh THEN [ok |-> FALSE, w |-> w]
  ELSE IF table \notin DOMAIN w.sh[name] THEN [ok |-> FALSE, w |-> w]
  ELSE [ok |-> TRUE,
        w |-> [w EXCEPT !.sh[name][table] = Append(@, [i \in 1..Len(row) |-> Cell(row[i])])]]

\* createSheet(name): throws when a sheet of that name exists
createSheet(w, name) ==
  IF SheetExists(w, name) THEN [ok |-> FALSE, w |-> w]
  ELSE IF name = "companies" THEN [ok |-> TRUE, w |-> [w EXCEPT !.cs = TRUE, !.cd = <<>>]]
  ELSE [ok |-> TRUE,
        w |-> [w EXCEPT !.sh = [n \in DOMAIN w.sh \cup {name} |->
                                  IF n = name THEN <<>> ELSE w.sh[n]]]]

\* appendToSheet('companies', [row]): appends one row
appendToSheet(w, row) ==
  IF ~w.cs THEN [ok |-> FALSE, w |-> w]
  ELSE [ok |-> TRUE,
        w |-> [w EXCEPT !.cd = Append(@, [i \in 1..Len(row) |-> Cell(row[i])])]]

\* updateRow('companies', index, row): index counts from 0 at the header row
updateRow(w, index, row) ==
  IF ~w.cs \/ index + 1 > Len(w.cd) THEN [ok |-> FALSE, w |-> w]
  ELSE [ok |-> TRUE,
        w |-> [w EXCEPT !.cd[index + 1] = [i \in 1..Len(row) |-> Cell(row[i])]]]

\* renameSheet(old, new): throws when old does not exist or new exists
renameSheet(w, old, new) ==
  IF old = "companies" \/ old \notin DOMAIN w.sh \/ SheetExists(w, new)
  THEN [ok |-> FALSE, w |-> w]
  ELSE [ok |-> TRUE,
        w |-> [w EXCEPT !.sh = [n \in (DOMAIN w.sh \ {old}) \cup {new} |->
                                  IF n = new THEN w.sh[old] ELSE w.sh[n]]]]

\* uploadImage(fileName, image, folder): up is the image host's answer
uploadImage(fileName, up) ==
  [success |-> (up = "ok"), url |-> IF up = "ok" THEN "https://img/" \o fileName ELSE Undefined]

\* bcrypt.hash(password, 10)
bcryptHash(password) == "$2a$10$" \o password

(***************************************************************************)
(* Responses.  calls lists the collaborator calls the handler made, in     *)
(* order; w is the spreadsheet the handler leaves behind; body is the JSON *)
(* payload of a success response.                                          *)
(***************************************************************************)
Resp(st, err, calls, w, body) ==
  [status |-> st, error |-> err, calls |-> calls, w |-> w, body |-> body, t |-> -1]

\* the handler read the clock (Date.now(), new Date()) and got now
AtTime(r, now) == [r EXCEPT !.t = now]

\* a session check that forgets the user type
NotAdminSessionOnly(session) == session = ""

\* !session || session.user.type !== 'admin'
NotAdmin(session) == session # "admin"

(***************************************************************************)
(* GET /api/companies                                                      *)
(***************************************************************************)
\* an object that carries the password column as well
CompanyObjectWithPassword(row) ==
  [id |-> row[1], name |-> row[2], username |-> row[3], password |-> row[4],
   image |-> OrElse(row[5], Null),
   status |-> OrElse(row[6], "enabled"),
   deleted |-> IF row[7] = "true" THEN JsTrue ELSE JsFalse]

\* one row of the companies table as the object GET returns
CompanyObject(row) ==
  [id |-> row[1], name |-> row[2], username |-> row[3],
   image |-> OrElse(row[5], Null),
   status |-> OrElse(row[6], "enabled"),
   deleted |-> IF row[7] = "true" THEN JsTrue ELSE JsFalse]

CompaniesList(data) ==
  [i \in 1..Len(Slice1(data)) |-> CompanyObject(Slice1(data)[i])]

CompaniesGET(w, session, fail) ==
  IF NotAdmin(session) THEN Resp(401, "Unauthorized", <<>>, w, <<>>)
  ELSE LET g == getSheetData(w, "companies") IN
    IF ~g.ok \/ fail = "getSheetData"
    THEN Resp(500, "Failed to get companies", <<"getSheetData">>, w, <<>>)
    ELSE Resp(200, "", <<"getSheetData">>, w, CompaniesList(g.val))

(***************************************************************************)
(* POST /api/companies                                                     *)
(***************************************************************************)
CompaniesHeader == <<"ID", "Name", "Username", "Password", "Image", "Status", "Deleted">>

\* a uniqueness check that compares the name column
UsernameExistsByName(existingCompanies, username) ==
  \E i \in 1..Len(existingCompanies) : existingCompanies[i][2] = username

\* a uniqueness check that skips the companies marked deleted
UsernameExistsAmongActive(existingCompanies, username) ==
  \E i \in 1..Len(existingCompanies) :
    existingCompanies[i][7] # "true" /\ existingCompanies[i][3] = username

\* existingCompanies.some((row) => row[2] === username)
UsernameExists(existingCompanies, username) ==
  \E i \in 1..Len(existingCompanies) : existingCompanies[i][3] = username

\* a preparation that writes the header row whether or not the sheet exists
POSTEnsureSheetAlways(w, fail) ==
  LET c == IF w.cs THEN w ELSE createSheet(w, "companies").w
      a == appendToSheet(c, CompaniesHeader) IN
  [ok |-> TRUE, w |-> a.w, calls |-> <<"getSheetData", "createSheet", "appendToSheet">>]

\* lines 67-77: the first read, and the creation of the sheet when it throws
POSTEnsureSheet(w, fail) ==
  LET g == getSheetData(w, "companies") IN
  IF g.ok /\ fail # "getSheetData"
  THEN [ok |-> TRUE, w |-> w, calls |-> <<"getSheetData">>]
  ELSE LET c == createSheet(w, "companies") IN
    IF ~c.ok \/ fail = "createCompanies"
    THEN [ok |-> FALSE, w |-> w, calls |-> <<"getSheetData", "createSheet">>]
    ELSE LET a == appendToSheet(c.w, CompaniesHeader) IN
      IF ~a.ok \/ fail = "appendHeader"
      THEN [ok |-> FALSE, w |-> c.w,
            calls |-> <<"getSheetData", "createSheet", "appendToSheet">>]
      ELSE [ok |-> TRUE, w |-> a.w,
            calls |-> <<"getSheetData", "createSheet", "appendToSheet">>]

\* a new row that starts disabled
NewCompanyRowDisabled(id, body, hashedPassword, imageUrl) ==
  <<id, body.name, body.username, hashedPassword, imageUrl, "disabled", "false">>

\* line 109: the row of a new company
NewCompanyRow(id, body, hashedPassword, imageUrl) ==
  <<id, body.name, body.username, hashedPassword, imageUrl, "enabled", "false">>

\* an upload whose every failure ends the request
UploadAbortsOnFailure(uploads, up) == uploads /\ up # "ok"

\* lines 100 and 201: the await of uploadImage throws, and the catch answers
UploadAborts(uploads, up) == uploads /\ up = "throw"

\* lines 90-125: id, hash, upload, append, company sheet
POSTCreate(w, calls, body, now, fail, up) ==
  LET id == "company_" \o ToString(now)
      hashedPassword == bcryptHash(body.password)
      fileName == "company_" \o id \o "_" \o ToString(now) \o ".jpg"
      uploads == ~Falsy(body.image)
      uploadResult == uploadImage(fileName, up)
      imageUrl == IF uploads /\ uploadResult.success THEN uploadResult.url ELSE Null
      calls2 == IF uploads THEN Append(calls, "uploadImage") ELSE calls
      a == appendToSheet(w, NewCompanyRow(id, body, hashedPassword, imageUrl))
      c == createSheet(a.w, body.name)
  IN
  IF UploadAborts(uploads, up)
  THEN Resp(500, "Failed to create company", calls2, w, <<>>)
  ELSE IF ~a.ok \/ fail = "appendToSheet"
  THEN Resp(500, "Failed to create company", Append(calls2, "appendToSheet"), w, <<>>)
  ELSE IF ~c.ok \/ fail = "createSheet"
  THEN Resp(500, "Failed to create company",
            calls2 \o <<"appendToSheet", "createSheet">>, a.w, <<>>)
  ELSE Resp(200, "", calls2 \o <<"appendToSheet", "createSheet">>, c.w,
            <<[id |-> id, name |-> body.name, username |-> body.username,
               image |-> imageUrl, status |-> "enabled", deleted |-> JsFalse]>>)

CompaniesPOST(w, session, body, now, fail, up) ==
  IF NotAdmin(session) THEN Resp(401, "Unauthorized", <<>>, w, <<>>)
  ELSE IF Falsy(body.name) \/ Falsy(body.username) \/ Falsy(body.password)
  THEN Resp(400, "Name, username, and password are required", <<>>, w, <<>>)
  ELSE LET e == POSTEnsureSheet(w, fail) IN
    IF ~e.ok THEN Resp(500, "Failed to create company", e.calls, e.w, <<>>)
    ELSE LET g == getSheetData(e.w, "companies")
             calls == Append(e.calls, "getSheetData") IN
      IF ~g.ok \/ fail = "getSheetData2"
      THEN Resp(500, "Failed to create company", calls, e.w, <<>>)
      ELSE IF UsernameExists(Slice1(g.val), body.username)
      THEN Resp(400, "Username already exists", calls, e.w, <<>>)
      ELSE AtTime(POSTCreate(e.w, calls, body, now, fail, up), now)

(***************************************************************************)
(* PUT /api/companies                                                      *)
(***************************************************************************)
\* companies.findIndex((row) => row[0] === id), 1-based, 0 for -1
CompanyIndex(companies, id) ==
  FirstIndex({i \in 1..Len(companies) : companies[i][1] = id})

\* a check that also counts the company's own row
PUTUsernameTakenAnyRow(companies, companyIndex, username) ==
  /\ ~Falsy(username)
  /\ \E i \in 1..Len(companies) : companies[i][3] = username

\* lines 181-189: the username is being changed to one another row holds
PUTUsernameTaken(companies, companyIndex, username) ==
  /\ ~Falsy(username)
  /\ username # companies[companyIndex][3]
  /\ \E i \in 1..Len(companies) : i # companyIndex /\ companies[i][3] = username

\* a rename test that never asks for the rename
NameNeverChanges(name, currentName) == FALSE

\* line 222: name && name !== currentName
NameChanges(name, currentName) == ~Falsy(name) /\ name # currentName

\* lines 172-236: the new row, its write, the rename and the response
PUTUpdate(w, calls, companies, companyIndex, body, now, fail, up) ==
  LET currentCompany == companies[companyIndex]
      currentName == currentCompany[2]
      currentUsername == currentCompany[3]
      currentPassword == currentCompany[4]
      currentImage == OrElse(currentCompany[5], Null)
      currentStatus == OrElse(currentCompany[6], "enabled")
      currentDeleted == (currentCompany[7] = "true")
      hashedPassword == IF ~Falsy(body.password) THEN bcryptHash(body.password)
                        ELSE currentPassword
      uploads == ~Falsy(body.image)
      fileName == "company_" \o body.id \o "_" \o ToString(now) \o ".jpg"
      uploadResult == uploadImage(fileName, up)
      imageUrl == IF uploads /\ uploadResult.success THEN uploadResult.url
                  ELSE currentImage
      calls2 == IF uploads THEN Append(calls, "uploadImage") ELSE calls
      newDeleted == IF IsBoolean(body.deleted) THEN body.deleted = JsTrue
                    ELSE currentDeleted
      updatedCompany == <<body.id,
                          OrElse(body.name, currentName),
                          OrElse(body.username, currentUsername),
                          hashedPassword,
                          imageUrl,
                          OrElse(body.status, currentStatus),
                          IF newDeleted THEN "true" ELSE "false">>
      u == updateRow(w, companyIndex, updatedCompany)
      renames == NameChanges(body.name, currentName)
      r == renameSheet(u.w, currentName, body.name)
      calls3 == Append(calls2, "updateRow")
  IN
  IF UploadAborts(uploads, up)
  THEN Resp(500, "Failed to update company", calls2, w, <<>>)
  ELSE IF ~u.ok \/ fail = "updateRow"
  THEN Resp(500, "Failed to update company", calls3, w, <<>>)
  ELSE IF renames /\ (~r.ok \/ fail = "renameSheet")
  THEN Resp(500, "Failed to update company", Append(calls3, "renameSheet"), u.w, <<>>)
  ELSE Resp(200, "",
            IF renames THEN Append(calls3, "renameSheet") ELSE calls3,
            IF renames THEN r.w ELSE u.w,
            <<[id |-> body.id,
               name |-> OrElse(body.name, currentName),
               username |-> OrElse(body.username, currentUsername),
               image |-> imageUrl,
               status |-> OrElse(body.status, currentStatus),
               deleted |-> IF newDeleted THEN JsTrue ELSE JsFalse]>>)

CompaniesPUT(w, session, body, now, fail, up) ==
  IF NotAdmin(session) THEN Resp(401, "Unauthorized", <<>>, w, <<>>)
  ELSE IF Falsy(body.id) THEN Resp(400, "Company ID is required", <<>>, w, <<>>)
  ELSE LET g == getSheetData(w, "companies")
           companies == Slice1(g.val)
           companyIndex == CompanyIndex(companies, body.id) IN
    IF ~g.ok \/ fail = "getSheetData"
    THEN Resp(500, "Failed to update company", <<"getSheetData">>, w, <<>>)
    ELSE IF companyIndex = 0
    THEN Resp(404, "Company not found", <<"getSheetData">>, w, <<>>)
    ELSE IF PUTUsernameTaken(companies, companyIndex, body.username)
    THEN Resp(400, "Username already exists", <<"getSheetData">>, w, <<>>)
    ELSE LET r == PUTUpdate(w, <<"getSheetData">>, companies, companyIndex, body, now, fail, up)
         IN IF ~Falsy(body.image) THEN AtTime(r, now) ELSE r

(***************************************************************************)
(* DELETE /api/companies?id=...                                            *)
(***************************************************************************)
\* a delete that writes the flag one column to the left
MarkDeletedWrongColumn(row) == [row EXCEPT ![6] = "true"]

\* lines 286-288: the row with its deleted column set
MarkDeleted(row) == [row EXCEPT ![7] = "true"]

\* line 293: the name the company's sheet gets
DeletedSheetName(companyName) == companyName \o "-deleted"

CompaniesDELETE(w, session, id, fail) ==
  IF NotAdmin(session) THEN Resp(401, "Unauthorized", <<>>, w, <<>>)
  ELSE IF Falsy(id) THEN Resp(400, "Company ID is required", <<>>, w, <<>>)
  ELSE LET g == getSheetData(w, "companies")
           companies == Slice1(g.val)
           companyIndex == CompanyIndex(companies, id) IN
    IF ~g.ok \/ fail = "getSheetData"
    THEN Resp(500, "Failed to mark company as deleted", <<"getSheetData">>, w, <<>>)
    ELSE IF companyIndex = 0
    THEN Resp(404, "Company not found", <<"getSheetData">>, w, <<>>)
    ELSE LET companyName == companies[companyIndex][2]
             u == updateRow(w, companyIndex, MarkDeleted(companies[companyIndex]))
             r == renameSheet(u.w, companyName, DeletedSheetName(companyName)) IN
      IF ~u.ok \/ fail = "updateRow"
      THEN Resp(500, "Failed to mark company as deleted",
                <<"getSheetData", "updateRow">>, w, <<>>)
      ELSE IF ~r.ok \/ fail = "renameSheet"
      THEN Resp(500, "Failed to mark company as deleted",
                <<"getSheetData", "updateRow", "renameSheet">>, u.w, <<>>)
      ELSE Resp(200, "", <<"getSheetData", "updateRow", "renameSheet">>, r.w,
                <<[message |-> "Company " \o companyName \o " marked as deleted successfully"]>>)

(***************************************************************************)
(* The admin dashboard (control_admin/page.tsx)                            *)
(***************************************************************************)
\* the filter of the list: showDeleted ? company.deleted : !company.deleted
DashboardShows(company, showDeleted) ==
  IF showDeleted THEN company.deleted = JsTrue ELSE company.deleted # JsTrue

\* the companies the dashboard lists, as positions of the fetched list
DashboardList(companies, showDeleted) ==
  {i \in 1..Len(companies) : DashboardShows(companies[i], showDeleted)}

\* handleToggleCompanyStatus: the body of its PUT
ToggleBody(id, currentStatus) ==
  [id |-> id, name |-> Undefined, username |-> Undefined, password |-> Undefined,
   image |-> Undefined,
   status |-> IF currentStatus = "disabled" THEN "enabled" ELSE "disabled",
   deleted |-> Undefined]

\* handleRestoreCompany: the body of its PUT
RestoreBody(id) ==
  [id |-> id, name |-> Undefined, username |-> Undefined, password |-> Undefined,
   image |-> Undefined, status |-> Undefined, deleted |-> JsFalse]

(***************************************************************************)
(* Strings of the registration payloads.  Chars spells a string out so     *)
(* that the regular expressions can be run on its characters.              *)
(***************************************************************************)
Chars(s) ==
  CASE s = "a@x.io" -> <<"a", "@", "x", ".", "i", "o">>
    [] s = "b@x.io" -> <<"b", "@", "x", ".", "i", "o">>
    [] s = "a@x" -> <<"a", "@", "x">>
    [] s = "a b@x.io" -> <<"a", " ", "b", "@", "x", ".", "i", "o">>
    [] s = "a@@x.io" -> <<"a", "@", "@", "x", ".", "i", "o">>
    [] s = "0100000001" -> <<"0", "1", "0", "0", "0", "0", "0", "0", "0", "1">>
    [] s = "0100000002" -> <<"0", "1", "0", "0", "0", "0", "0", "0", "0", "2">>
    [] s = "010000001" -> <<"0", "1", "0", "0", "0", "0", "0", "0", "1">>
    [] s = "0100000000000001" ->
         <<"0", "1", "0", "0", "0", "0", "0", "0", "0", "0", "0", "0", "0", "0", "0", "1">>
    [] s = "+100000001" -> <<"+", "1", "0", "0", "0", "0", "0", "0", "0", "1">>
    [] s = "20" -> <<"2", "0">>
    [] s = "14" -> <<"1", "4">>
    [] s = "101" -> <<"1", "0", "1">>
    [] s = "abc" -> <<"a", "b", "c">>
    [] s = "29901011234567" -> <<"2", "9", "9", "0", "1", "0", "1", "1", "2", "3", "4", "5", "6", "7">>
    [] OTHER -> <<s>>

IsDigit(c) == c \in {"0", "1", "2", "3", "4", "5", "6", "7", "8", "9"}

\* /^[^\s@]+@[^\s@]+\.[^\s@]+$/.test(email)
emailRegexTest(email) ==
  LET cs == Chars(email) IN
  \E a \in 1..Len(cs) : \E d \in 1..Len(cs) :
    /\ cs[a] = "@" /\ cs[d] = "."
    /\ 1 < a /\ a + 1 < d /\ d < Len(cs)
    /\ \A i \in 1..Len(cs) : i # a => cs[i] \notin {" ", "\t", "\n", "@"}   \* [^\s@]

\* /^\d{10,15}$/.test(whatsappNumber)
phoneRegexTest(whatsappNumber) ==
  LET cs == Chars(whatsappNumber) IN
  /\ Len(cs) >= 10 /\ Len(cs) <= 15
  /\ \A i \in 1..Len(cs) : IsDigit(cs[i])

DigitValue(c) ==
  CASE c = "0" -> 0 [] c = "1" -> 1 [] c = "2" -> 2 [] c = "3" -> 3 [] c = "4" -> 4
    [] c = "5" -> 5 [] c = "6" -> 6 [] c = "7" -> 7 [] c = "8" -> 8 [] c = "9" -> 9

RECURSIVE DecimalValue(_)
DecimalValue(cs) ==
  IF cs = <<>> THEN 0
  ELSE 10 * DecimalValue(SubSeq(cs, 1, Len(cs) - 1)) + DigitValue(cs[Len(cs)])

\* isNaN(Number(age)) for the strings above
IsNaNNumber(age) == \E i \in 1..Len(Chars(age)) : ~IsDigit(Chars(age)[i])

\* Number(age), for a string of digits
NumberOf(age) == DecimalValue(Chars(age))

\* decodeURIComponent(rawCompanyName): the argument is converted to a string
\* first, and a malformed escape throws URIError
decodeURIComponent(raw) ==
  CASE raw = Undefined -> [ok |-> TRUE, val |-> "undefined"]
    [] raw = Null -> [ok |-> TRUE, val |-> "null"]
    [] raw = "%" -> [ok |-> FALSE, val |-> ""]
    [] raw = "acm%65" -> [ok |-> TRUE, val |-> "acme"]
    [] OTHER -> [ok |-> TRUE, val |-> raw]

\* new Date(now).toISOString(), for the first milliseconds of the epoch
toISOString(now) == "1970-01-01T00:00:00.00" \o ToString(now) \o "Z"

\* row[i] of JavaScript for a 0-based i given as the 1-based position
At(row, pos) == IF pos >= 1 /\ pos <= Len(row) THEN row[pos] ELSE Undefined

\* headers.findIndex(h => h === title), 1-based, 0 for -1
HeaderIndex(headers, title) ==
  FirstIndex({i \in 1..Len(headers) : headers[i] = title})

(***************************************************************************)
(* POST /api/events/register (src/app/api/events/register/route.ts).       *)
(* The handler is a chain of stages, one per await; a stage either passes  *)
(* or answers the request.                                                 *)
(***************************************************************************)
Pass(calls) == [pass |-> TRUE, status |-> 0, error |-> "", calls |-> calls]
Answer(st, err, calls) == [pass |-> FALSE, status |-> st, error |-> err, calls |-> calls]

\* lines 33: one of the ten fields is falsy
RegMissingField(companyName, body) ==
  \/ Falsy(companyName) \/ Falsy(body.eventName) \/ Falsy(body.name)
  \/ Falsy(body.whatsappNumber) \/ Falsy(body.nationalId) \/ Falsy(body.email)
  \/ Falsy(body.education) \/ Falsy(body.universityCollege) \/ Falsy(body.age)
  \/ Falsy(body.gender)

\* lines 8-69: parsing and the three payload validations
RegValidate(body) ==
  LET d == decodeURIComponent(body.companyName) IN
  IF ~d.ok THEN Answer(500, "Failed to register for event", <<>>)
  ELSE IF RegMissingField(d.val, body) THEN Answer(400, "All fields are required", <<>>)
  ELSE IF ~emailRegexTest(body.email) THEN Answer(400, "Invalid email format", <<>>)
  ELSE IF ~phoneRegexTest(body.whatsappNumber)
  THEN Answer(400, "Invalid WhatsApp number format", <<>>)
  ELSE Pass(<<>>)

\* lines 72-91: the company's sheet
RegCompanySheet(w, companyName, fail) ==
  LET g == getSheetData(w, companyName) IN
  IF ~g.ok \/ fail = "getSheetData"
  THEN Answer(404, "Company \"" \o companyName \o "\" not found or inaccessible",
              <<"getSheetData">>)
  ELSE IF Len(g.val) = 0 THEN Answer(404, "Company not found", <<"getSheetData">>)
  ELSE Pass(<<"getSheetData">>)

\* companies.find((row) => row[1] === companyName), 1-based, 0 for undefined
FindCompany(companies, companyName) ==
  FirstIndex({i \in 1..Len(companies) : At(companies[i], 2) = companyName})

\* lines 93-125: the company's row and status
RegCompanyStatus(w, companyName, fail) ==
  LET g == getSheetData(w, "companies")
      companies == Slice1(g.val)
      company == FindCompany(companies, companyName) IN
  IF ~g.ok \/ fail = "getCompanies"
  THEN Answer(500, "Failed to verify company status", <<"getSheetData">>)
  ELSE IF company = 0
  THEN Answer(404, "Company not found in the system", <<"getSheetData">>)
  ELSE IF OrElse(At(companies[company], 6), "enabled") = "disabled"
  THEN Answer(403, "Company is disabled, registration is not available", <<"getSheetData">>)
  ELSE Pass(<<"getSheetData">>)

\* a status check that looks at every data row
EventDisabledAnyRow(tableData) ==
  LET statusIndex == HeaderIndex(tableData[1], "EventStatus") IN
  \E i \in 2..Len(tableData) : statusIndex # 0 /\ At(tableData[i], statusIndex) = "disabled"

\* lines 149-162: the event is marked disabled in its first data row
EventDisabled(tableData) ==
  LET statusIndex == HeaderIndex(tableData[1], "EventStatus") IN
  /\ statusIndex # 0 /\ Len(tableData) > 1
  /\ At(tableData[2], statusIndex) = "disabled"

\* a duplicate scan that looks at the email only
ExistingRegistrationEmailOnly(tableData, email, whatsappNumber) ==
  LET emailIndex == HeaderIndex(tableData[1], "Email") IN
  \E i \in 2..Len(tableData) : emailIndex # 0 /\ At(tableData[i], emailIndex) = email

\* lines 166-175: a row with the same email or the same WhatsApp number
ExistingRegistration(tableData, email, whatsappNumber) ==
  LET headers == tableData[1]
      registrationData == Slice1(tableData)
      emailIndex == HeaderIndex(headers, "Email")
      whatsappIndex == HeaderIndex(headers, "WhatsApp Number") IN
  \E i \in 1..Len(registrationData) :
    \/ emailIndex # 0 /\ At(registrationData[i], emailIndex) = email
    \/ whatsappIndex # 0 /\ At(registrationData[i], whatsappIndex) = whatsappNumber

\* lines 141-183: the checks on the table that was read
RegCheckTable(tableData, body) ==
  IF Len(tableData) = 0 THEN Answer(404, "Event not found", <<"getTableData">>)
  ELSE IF EventDisabled(tableData)
  THEN Answer(403, "Event registration is currently disabled", <<"getTableData">>)
  ELSE IF ExistingRegistration(tableData, body.email, body.whatsappNumber)
  THEN Answer(400, "You are already registered for this event", <<"getTableData">>)
  ELSE Pass(<<"getTableData">>)

\* lines 128-183: the read of the event table and its checks
RegEvent(w, companyName, body, fail) ==
  LET t == getTableData(w, companyName, body.eventName) IN
  IF ~t.ok \/ fail = "getTableData"
  THEN Answer(404, "Event \"" \o body.eventName \o "\" not found or inaccessible",
              <<"getTableData">>)
  ELSE RegCheckTable(t.val, body)

\* a row with the national id and the email in each other's column
RegistrationRowSwapped(body, registrationDate) ==
  <<body.name, body.whatsappNumber, body.email, body.nationalId, body.education,
    body.universityCollege, body.age, body.gender, registrationDate>>

\* a row without the registration date
RegistrationRowNoDate(body, registrationDate) ==
  <<body.name, body.whatsappNumber, body.nationalId, body.email, body.education,
    body.universityCollege, body.age, body.gender>>

\* lines 198-208: the row that is appended
RegistrationRow(body, registrationDate) ==
  <<body.name, body.whatsappNumber, body.nationalId, body.email, body.education,
    body.universityCollege, body.age, body.gender, registrationDate>>

\* lines 185-227: the append and the success response
RegAppend(w, calls, companyName, body, now, fail) ==
  LET registrationDate == toISOString(now)
      a == addToTable(w, companyName, body.eventName,
                      RegistrationRow(body, registrationDate)) IN
  IF ~a.ok \/ fail = "addToTable"
  THEN Resp(500, "Failed to complete registration", Append(calls, "addToTable"), w, <<>>)
  ELSE Resp(200, "", Append(calls, "addToTable"), a.w,
            <<[name |-> body.name, email |-> body.email,
               registrationDate |-> registrationDate]>>)

\* a stage's answer as the handler's response
Answered(s, calls, w) == Resp(s.status, s.error, calls \o s.calls, w, <<>>)

RegisterPOST(w, body, now, fail) ==
  LET v == RegValidate(body)
      companyName == decodeURIComponent(body.companyName).val
      s1 == RegCompanySheet(w, companyName, fail)
      s2 == RegCompanyStatus(w, companyName, fail)
      s3 == RegEvent(w, companyName, body, fail) IN
  IF ~v.pass THEN Answered(v, <<>>, w)
  ELSE IF ~s1.pass THEN Answered(s1, <<>>, w)
  ELSE IF ~s2.pass THEN Answered(s2, s1.calls, w)
  ELSE IF ~s3.pass THEN Answered(s3, s1.calls \o s2.calls, w)
  ELSE AtTime(RegAppend(w, s1.calls \o s2.calls \o s3.calls, companyName, body, now, fail), now)

(***************************************************************************)
(* The older registration handler (src/unnamed/part_001): the phone field  *)
(* is called whatsapp, the age is validated, a company missing from the    *)
(* companies table is let through, the duplicate scan is positional and    *)
(* every collaborator failure is answered 404.                             *)
(***************************************************************************)
\* line 33
LegacyMissingField(companyName, body) ==
  \/ Falsy(companyName) \/ Falsy(body.eventName) \/ Falsy(body.name)
  \/ Falsy(body.whatsapp) \/ Falsy(body.email) \/ Falsy(body.gender)
  \/ Falsy(body.education) \/ Falsy(body.universityCollege) \/ Falsy(body.age)
  \/ Falsy(body.nationalId)

\* lines 8-77
LegacyValidate(body) ==
  LET d == decodeURIComponent(body.companyName) IN
  IF ~d.ok THEN Answer(500, "Failed to register for event", <<>>)
  ELSE IF LegacyMissingField(d.val, body) THEN Answer(400, "All fields are required", <<>>)
  ELSE IF ~emailRegexTest(body.email) THEN Answer(400, "Invalid email format", <<>>)
  ELSE IF ~phoneRegexTest(body.whatsapp)
  THEN Answer(400, "Invalid WhatsApp number format", <<>>)
  ELSE IF IsNaNNumber(body.age) \/ NumberOf(body.age) < 15 \/ NumberOf(body.age) > 100   \* line 72
  THEN Answer(400, "Please enter a valid age between 15 and 100", <<>>)
  ELSE Pass(<<>>)

\* lines 80-90
LegacyCompanySheet(w, companyName, fail) ==
  LET g == getSheetData(w, companyName) IN
  IF ~g.ok \/ fail = "getSheetData" \/ Len(g.val) = 0
  THEN Answer(404, "Company not found", <<"getSheetData">>)
  ELSE Pass(<<"getSheetData">>)

\* lines 92-107
LegacyCompanyStatus(w, companyName, fail) ==
  LET g == getSheetData(w, "companies")
      companies == Slice1(g.val)
      company == FindCompany(companies, companyName) IN
  IF ~g.ok \/ fail = "getCompanies"
  THEN Answer(404, "Company not found", <<"getSheetData">>)
  ELSE IF company # 0 /\ OrElse(At(companies[company], 6), "enabled") = "disabled"
  THEN Answer(403, "Company is disabled, registration is not available", <<"getSheetData">>)
  ELSE Pass(<<"getSheetData">>)

\* lines 138-143: registrationData.find((row) => row[2] === email || row[1] === whatsapp)
LegacyExistingRegistration(tableData, email, whatsapp) ==
  LET registrationData == Slice1(tableData) IN
  \E i \in 1..Len(registrationData) :
    \/ At(registrationData[i], 3) = email
    \/ At(registrationData[i], 2) = whatsapp

\* lines 110-150
LegacyEvent(w, companyName, body, fail) ==
  LET t == getTableData(w, companyName, body.eventName) IN
  IF ~t.ok \/ fail = "getTableData" \/ Len(t.val) = 0
  THEN Answer(404, "Event not found", <<"getTableData">>)
  ELSE IF EventDisabled(t.val)
  THEN Answer(403, "Event registration is currently disabled", <<"getTableData">>)
  ELSE IF LegacyExistingRegistration(t.val, body.email, body.whatsapp)
  THEN Answer(400, "You are already registered for this event", <<"getTableData">>)
  ELSE Pass(<<"getTableData">>)

\* lines 162-172
LegacyRegistrationRow(body, registrationDate) ==
  <<body.name, body.whatsapp, body.nationalId, body.email, body.education,
    body.universityCollege, body.age, body.gender, registrationDate>>

\* lines 152-191
LegacyAppend(w, calls, companyName, body, now, fail) ==
  LET registrationDate == toISOString(now)
      a == addToTable(w, companyName, body.eventName,
                      LegacyRegistrationRow(body, registrationDate)) IN
  IF ~a.ok \/ fail = "addToTable"
  THEN Resp(404, "Event not found", Append(calls, "addToTable"), w, <<>>)
  ELSE Resp(200, "", Append(calls, "addToTable"), a.w,
            <<[name |-> body.name, email |-> body.email,
               registrationDate |-> registrationDate]>>)

LegacyRegisterPOST(w, body, now, fail) ==
  LET v == LegacyValidate(body)
      companyName == decodeURIComponent(body.companyName).val
      s1 == LegacyCompanySheet(w, companyName, fail)
      s2 == LegacyCompanyStatus(w, companyName, fail)
      s3 == LegacyEvent(w, companyName, body, fail) IN
  IF ~v.pass THEN Answered(v, <<>>, w)
  ELSE IF ~s1.pass THEN Answered(s1, <<>>, w)
  ELSE IF ~s2.pass THEN Answered(s2, s1.calls, w)
  ELSE IF ~s3.pass THEN Answered(s3, s1.calls \o s2.calls, w)
  ELSE AtTime(LegacyAppend(w, s1.calls \o s2.calls \o s3.calls, companyName, body, now, fail), now)

(***************************************************************************)
(* GET /api/test (src/app/api/test/route.ts, lines 37-117).  The response  *)
(* is written as a sequence of records, one per part of the JSON document: *)
(* the envelope, results.company, results.event, each cell of its headers, *)
(* results.companies and each entry of its list.                           *)
(***************************************************************************)
\* error.message of a spreadsheet call that threw

\* lines 55-83: results.company and results.event
TestCompanyPart(w, company, event) ==
  LET g == getSheetData(w, company)
      t == getTableData(w, company, event)
  IN
  IF Falsy(company) THEN <<>>
  ELSE IF ~g.ok
  THEN <<[part |-> "company", found |-> JsFalse, error |-> "Unable to parse range"]>>
  ELSE <<[part |-> "company", found |-> JsTrue, rowCount |-> ToString(Len(g.val))]>>
       \o (IF Falsy(event) THEN <<>>
           ELSE IF ~t.ok
           THEN <<[part |-> "event", found |-> JsFalse, error |-> "Unable to parse range"]>>
           ELSE <<[part |-> "event", found |-> JsTrue, rowCount |-> ToString(Len(t.val))]>>
                \o (IF t.val = <<>> THEN <<>>
                    ELSE [c \in 1..Len(t.val[1]) |->
                            [part |-> "event.headers", value |-> t.val[1][c]]]))

\* lines 86-104: results.companies
TestCompaniesPart(w) ==
  LET c == getSheetData(w, "companies")
      rows == Slice1(c.val)
  IN
  IF ~c.ok THEN <<[part |-> "companies", found |-> JsFalse, error |-> "Unable to parse range"]>>
  ELSE <<[part |-> "companies", found |-> JsTrue, rowCount |-> ToString(Len(c.val))]>>
       \o [i \in 1..Len(rows) |->
             [part |-> "companies.list", id |-> rows[i][1], name |-> rows[i][2],
              status |-> OrElse(rows[i][6], "enabled")]]

TestGET(w, company, event, now) ==
  AtTime(Resp(200, "",
              (IF Falsy(company) THEN <<>>
               ELSE IF Falsy(event) \/ ~getSheetData(w, company).ok THEN <<"getSheetData">>
               ELSE <<"getSheetData", "getTableData">>) \o <<"getSheetData">>,
              w,
              <<[part |-> "response", status |-> "ok", timestamp |-> toISOString(now),
                 company |-> company, event |-> event]>>
              \o TestCompanyPart(w, company, event) \o TestCompaniesPart(w)),
         now)

(***************************************************************************)
(* Event tables.  Events are created by the events endpoint, which is not  *)
(* part of the snapshot; a new table holds its header row.                 *)
(***************************************************************************)
EventHeader ==
  <<"Name", "WhatsApp Number", "ID National Number", "Email", "Education",
    "University and College", "Age", "Gender", "Registration Date">>

createTable(w, name, table) ==
  [w EXCEPT !.sh[name] = [e \in DOMAIN w.sh[name] \cup {table} |->
                            IF e = table THEN <<EventHeader>> ELSE w.sh[name][e]]]

(***************************************************************************)
(* The registration page (src/unnamed/part_000, lines 1-564), opened for   *)
(* one company and one event.  The events endpoint it reads on mount is    *)
(* not part of the snapshot and is modelled from the specification.        *)
(***************************************************************************)
\* params.company_name of the page; params.event_id is "launch"
PageCompany == "acme"

\* lines 34-43: the form as useState starts it
InitialForm ==
  [name |-> "", whatsapp |-> "", nationalId |-> "", email |-> "",
   education |-> "student", universityCollege |-> "", age |-> "", gender |-> "male"]

\* lines 34-52: the state of the page at its first render; submitted records
\* how the last submission ended
PageInit ==
  [loading |-> TRUE, submitting |-> FALSE, error |-> "", success |-> FALSE,
   exactEventName |-> Null, eventDisabled |-> FALSE, companyDisabled |-> FALSE,
   formData |-> InitialForm, submitted |-> "none"]

\* GET /api/events?company=...: the events of the company with their status
\* and the company's, 403 for a disabled company
EventsGET(w, company) ==
  LET companies == Slice1(w.cd)
      row == FirstIndex({i \in 1..Len(companies) : companies[i][2] = company})
      companyStatus == IF row = 0 THEN "enabled" ELSE OrElse(companies[row][6], "enabled")
  IN
  IF companyStatus = "disabled" THEN [status |-> 403, events |-> {}]
  ELSE IF company \notin DOMAIN w.sh THEN [status |-> 500, events |-> {}]
  ELSE [status |-> 200,
        events |-> {[id |-> e,
                     status |-> IF /\ Len(w.sh[company][e]) > 1
                                   /\ \E c \in 1..Len(w.sh[company][e][1]) :
                                        /\ w.sh[company][e][1][c] = "EventStatus"
                                        /\ At(w.sh[company][e][2], c) = "disabled"
                                THEN "disabled" ELSE "enabled",
                     companyStatus |-> companyStatus] : e \in DOMAIN w.sh[company]}]

\* lines 54-109: fetchEventDetails; the catch reads companyDisabled as it was
\* at the first render
fetchEventDetails(p, response) ==
  LET found == {e \in response.events : e.id = "launch"}
      event == CHOOSE e \in found : TRUE
      notFound == "Event not found or no longer available"
  IN
  IF response.status # 200
  THEN [p EXCEPT !.loading = FALSE, !.error = notFound,
                 !.companyDisabled = (response.status = 403)]
  ELSE IF found = {} THEN [p EXCEPT !.loading = FALSE, !.error = notFound]
  ELSE [p EXCEPT !.loading = FALSE, !.exactEventName = event.id,
                 !.eventDisabled = (event.status = "disabled"),
                 !.companyDisabled = (event.companyStatus = "disabled")]

\* lines 217-371: what the page renders
View(p) ==
  IF p.loading THEN "loading"
  ELSE IF p.error # "" /\ ~p.submitting THEN "error"
  ELSE IF p.eventDisabled THEN "eventDisabled"
  ELSE IF p.companyDisabled THEN "companyDisabled"
  ELSE IF p.success THEN "success"
  ELSE "form"

\* lines 366-370: the error box of the form shows the error
ErrorBoxShown(p) == View(p) = "form" /\ p.error # ""

\* lines 135-167: the validation of the form; "" when it passes
PageValidation(formData) ==
  IF \/ formData.name = "" \/ formData.whatsapp = "" \/ formData.email = ""
     \/ formData.gender = "" \/ formData.education = "" \/ formData.universityCollege = ""
     \/ formData.nationalId = "" \/ formData.age = ""
  THEN "All fields are required"
  ELSE IF ~emailRegexTest(formData.email) THEN "Invalid email format"
  ELSE IF ~phoneRegexTest(formData.whatsapp) THEN "Invalid WhatsApp number format"
  ELSE IF IsNaNNumber(formData.age) \/ NumberOf(formData.age) < 15 \/ NumberOf(formData.age) > 100
  THEN "Please enter a valid age between 15 and 100"
  ELSE ""

\* lines 121-171: handleSubmit up to the fetch
handleSubmitStart(p) ==
  IF p.exactEventName = Null
  THEN [p EXCEPT !.error = "Event information is missing. Please refresh the page and try again.",
                 !.submitted = "rejected"]
  ELSE IF p.eventDisabled \/ p.companyDisabled
  THEN [p EXCEPT !.error = "Registration is currently disabled for this event.",
                 !.submitted = "rejected"]
  ELSE IF PageValidation(p.formData) # ""
  THEN [p EXCEPT !.error = PageValidation(p.formData), !.submitted = "rejected"]
  ELSE [p EXCEPT !.submitting = TRUE, !.error = "", !.submitted = "pending"]

\* lines 185-190: the body of the request
PageBody(p) ==
  [companyName |-> PageCompany, eventName |-> p.exactEventName, name |-> p.formData.name,
   whatsapp |-> p.formData.whatsapp, email |-> p.formData.email, gender |-> p.formData.gender,
   education |-> p.formData.education, universityCollege |-> p.formData.universityCollege,
   age |-> p.formData.age, nationalId |-> p.formData.nationalId]

\* the same body as route.ts destructures it: it has no whatsappNumber
PageBodyAsRead(p) ==
  [companyName |-> PageCompany, eventName |-> p.exactEventName, name |-> p.formData.name,
   whatsappNumber |-> Undefined, nationalId |-> p.formData.nationalId,
   email |-> p.formData.email, education |-> p.formData.education,
   universityCollege |-> p.formData.universityCollege, age |-> p.formData.age,
   gender |-> p.formData.gender]

\* lines 192-215: handleSubmit from the response on
handleSubmitEnd(p, r) ==
  IF r.status = 200
  THEN [p EXCEPT !.success = TRUE, !.formData = InitialForm, !.submitting = FALSE,
                 !.submitted = "accepted"]
  ELSE [p EXCEPT !.error = OrElse(r.error, "Failed to register for event"),
                 !.submitting = FALSE, !.submitted = "rejected"]

(***************************************************************************)
(* Requests.                                                               *)
(***************************************************************************)
CompanyNames == {"acme", "beta"}
Usernames == {"u1", "u2"}
EventNames == {"launch"}

PostBody(name, username, password, image) ==
  [name |-> name, username |-> username, password |-> password, image |-> image]

PutBody(id, name, username, password, image, status, deleted) ==
  [id |-> id, name |-> name, username |-> username, password |-> password,
   image |-> image, status |-> status, deleted |-> deleted]

\* the ids a request can name: those of the table, and one that is not there
KnownIds == {companiesData[i][1] : i \in 2..Len(companiesData)} \cup {"company_x"}

\* the PUT bodies of the dashboard: status toggle and restore
DashboardPutBodies(id) ==
  {ToggleBody(id, st) : st \in {"enabled", "disabled"}} \cup {RestoreBody(id)}

\* PUT bodies of the edit form: one column each
EditPutBodies(id) ==
  {PutBody(id, n, Undefined, Undefined, Undefined, Undefined, Undefined) : n \in CompanyNames}
  \cup {PutBody(id, Undefined, u, Undefined, Undefined, Undefined, Undefined) : u \in Usernames}
  \cup {PutBody(id, Undefined, Undefined, Undefined, Undefined, Undefined, JsTrue),
        RestoreBody(id)}

RegBody(companyName, eventName, email, whatsappNumber) ==
  [companyName |-> companyName, eventName |-> eventName, name |-> "Ann",
   whatsappNumber |-> whatsappNumber, nationalId |-> "29901011234567", email |-> email,
   education |-> "BSc", universityCollege |-> "Cairo", age |-> "20", gender |-> "female"]

\* attendees: two share the email, two share the phone
Attendees ==
  {<<"a@x.io", "0100000001">>, <<"a@x.io", "0100000002">>, <<"b@x.io", "0100000001">>}

ValidRegBodies ==
  {RegBody(c, e, a[1], a[2]) : c \in CompanyNames, e \in EventNames, a \in Attendees}

(***************************************************************************)
(* State machine.                                                          *)
(***************************************************************************)
NoRequest ==
  [op |-> "none", session |-> "", req |-> <<>>, fail |-> "none", up |-> "none",
   status |-> 0, error |-> "", calls |-> <<>>, body |-> <<>>]

Init ==
  /\ companiesSheet = FALSE
  /\ companiesData = <<>>
  /\ sheets = <<>>
  /\ clock = 0
  /\ last = NoRequest
  /\ reqs = <<>>
  /\ page = PageInit

\* the model's bounds on the size of the tables
WithinBounds(w) ==
  /\ Len(w.cd) <= MaxCompanies + 1
  /\ \A n \in DOMAIN w.sh : \A e \in DOMAIN w.sh[n] : Len(w.sh[n][e]) <= MaxRegs + 1

\* a request was handled: the spreadsheet it leaves, the response, the time;
\* up is the image host's answer when the handler called it
HandledUp(op, session, req, fail, up, r) ==
  /\ WithinBounds(r.w)
  /\ companiesSheet' = r.w.cs
  /\ companiesData' = r.w.cd
  /\ sheets' = r.w.sh
  /\ clock' = IF r.t < 0 THEN clock ELSE r.t
  /\ last' = [op |-> op, session |-> session, req |-> req, fail |-> fail,
              up |-> IF \E k \in 1..Len(r.calls) : r.calls[k] = "uploadImage"
                     THEN up ELSE "none",
              status |-> r.status, error |-> r.error, calls |-> r.calls, body |-> r.body]
  /\ UNCHANGED <<reqs, page>>

\* the same for a handler that uploads nothing
Handled(op, session, req, fail, r) == HandledUp(op, session, req, fail, "none", r)

\* the values the clock can show to a request, out of Times
Nows(Times) == {t \in Times : t >= clock /\ t <= MaxClock}

AdminGET(Sessions, Fails) ==
  \E session \in Sessions, fail \in Fails :
    Handled("GET", session, <<>>, fail, CompaniesGET(World, session, fail))

AdminPOST(Sessions, Bodies, Fails, Ups, Times) ==
  \E session \in Sessions, body \in Bodies, fail \in Fails, up \in Ups, now \in Nows(Times) :
    HandledUp("POST", session, body, fail, up,
              CompaniesPOST(World, session, body, now, fail, up))

\* the ids a PUT body can carry, the absent one included
PutIds == KnownIds \cup {Undefined}

AdminPUT(Sessions, Bodies, Fails, Ups) ==
  \E session \in Sessions, body \in Bodies, fail \in Fails, up \in Ups :
    HandledUp("PUT", session, body, fail, up,
              CompaniesPUT(World, session, body, clock, fail, up))

AdminDELETE(Sessions, Fails) ==
  \E session \in Sessions, id \in KnownIds \cup {Null}, fail \in Fails :
    Handled("DELETE", session, [id |-> id], fail, CompaniesDELETE(World, session, id, fail))

\* the events endpoint creates the table of a new event
CreateEvent ==
  \E n \in DOMAIN sheets, e \in EventNames :
    /\ e \notin DOMAIN sheets[n]
    /\ sheets' = createTable(World, n, e).sh
    /\ last' = [NoRequest EXCEPT !.op = "createEvent"]
    /\ UNCHANGED <<companiesSheet, companiesData, clock, reqs, page>>

\* a registration request handled from start to end (route.ts)
Register(Bodies, Fails) ==
  \E body \in Bodies, fail \in Fails :
    Handled("register", "", body, fail, RegisterPOST(World, body, clock, fail))

\* the same with the handler of part_001
LegacyRegister(Bodies, Fails) ==
  \E body \in Bodies, fail \in Fails :
    Handled("register", "", body, fail, LegacyRegisterPOST(World, body, clock, fail))

(***************************************************************************)
(* Spec: one company name, the dashboard's requests and registrations,     *)
(* every request handled from start to end before the next one.            *)
(***************************************************************************)
Next ==
  \/ AdminPOST({"admin"}, {PostBody("acme", u, "pw1", Undefined) : u \in Usernames},
               {"none"}, {"ok"}, {clock + 1})
  \/ AdminPUT({"admin"}, UNION {DashboardPutBodies(id) : id \in PutIds}, {"none"}, {"ok"})
  \/ AdminDELETE({"admin"}, {"none"})
  \/ CreateEvent
  \/ Register(ValidRegBodies, {"none"})

Spec == Init /\ [][Next]_vars

(***************************************************************************)
(* SpecAdmin: the companies endpoint alone, with and without an admin      *)
(* session, two company names, incomplete bodies and an image.             *)
(***************************************************************************)
AdminPostBodies ==
  {PostBody(n, u, "pw1", Undefined) : n \in CompanyNames, u \in Usernames}
  \cup {PostBody("acme", "u1", "pw1", "data:image/jpeg"),
        PostBody(Undefined, "u1", "pw1", Undefined),
        PostBody("acme", "", "pw1", Undefined),
        PostBody("acme", "u1", Undefined, Undefined)}

\* requests without an admin session: no session, and a company's session
Outsiders == {"", "company"}

NextAdmin ==
  \/ AdminGET({"admin"}, {"none"})
  \/ AdminPOST({"admin"}, AdminPostBodies, {"none"}, {"ok"}, {clock + 1})
  \/ AdminPUT({"admin"}, UNION {EditPutBodies(id) : id \in PutIds}, {"none"}, {"ok"})
  \/ AdminDELETE({"admin"}, {"none"})
  \/ AdminGET(Outsiders, {"none"})
  \/ AdminPOST(Outsiders, {PostBody("acme", "u1", "pw1", "data:image/jpeg")},
               {"none"}, {"ok"}, {clock})
  \/ AdminPUT(Outsiders, {ToggleBody(id, "enabled") : id \in PutIds}, {"none"}, {"ok"})
  \/ AdminDELETE(Outsiders, {"none"})

SpecAdmin == Init /\ [][NextAdmin]_vars

(***************************************************************************)
(* SpecValidation: registration payloads with missing, empty and malformed *)
(* fields, against one company with one event.                             *)
(***************************************************************************)
RequiredFields ==
  {"companyName", "eventName", "name", "whatsappNumber", "nationalId", "email",
   "education", "universityCollege", "age", "gender"}

\* body with the fields of F replaced by v
Blank(body, F, v) == [f \in DOMAIN body |-> IF f \in F THEN v ELSE body[f]]

CompleteBody == RegBody("acme", "launch", "a@x.io", "0100000001")

\* bodies with one or two of the ten fields absent or empty
IncompleteBodies ==
  {Blank(CompleteBody, F, v) :
     F \in {G \in SUBSET RequiredFields : Cardinality(G) \in {1, 2}},
     v \in {Undefined, ""}}

\* complete bodies: other company names, emails and phone numbers
MalformedBodies ==
  {RegBody(c, "launch", "a@x.io", "0100000001") : c \in {"%", "acm%65", "beta"}}
  \cup {RegBody("acme", "launch", e, "0100000001") :
          e \in {"b@x.io", "a@x", "a b@x.io", "a@@x.io"}}
  \cup {RegBody("acme", "launch", "b@x.io", ph) :
          ph \in {"0100000002", "010000001", "0100000000000001", "+100000001"}}
  \cup {RegBody("%", "launch", "a@x", "0100000001"),
        RegBody("%", "launch", "a@x.io", "010000001")}

NextValidation ==
  \/ AdminPOST({"admin"}, {PostBody("acme", "u1", "pw1", Undefined)}, {"none"}, {"ok"},
               {clock + 1})
  \/ CreateEvent
  \/ Register({CompleteBody} \cup IncompleteBodies \cup MalformedBodies, {"none"})

SpecValidation == Init /\ [][NextValidation]_vars

(***************************************************************************)
(* SpecLegacy: the registration handler of part_001 in place of route.ts.  *)
(***************************************************************************)
LegacyRegBody(companyName, eventName, email, whatsapp, age) ==
  [companyName |-> companyName, eventName |-> eventName, name |-> "Ann",
   whatsapp |-> whatsapp, email |-> email, gender |-> "female", education |-> "BSc",
   universityCollege |-> "Cairo", age |-> age, nationalId |-> "29901011234567"]

LegacyBodies ==
  {LegacyRegBody(c, "launch", a[1], a[2], "20") : c \in CompanyNames, a \in Attendees}
  \cup {LegacyRegBody("acme", "launch", "a@x.io", "0100000001", age) :
          age \in {"14", "101", "abc"}}
  \cup {LegacyRegBody(DeletedSheetName("acme"), "launch", "a@x.io", "0100000001", "20")}

NextLegacy ==
  \/ AdminPOST({"admin"}, {PostBody(n, "u1", "pw1", Undefined) : n \in CompanyNames},
               {"none"}, {"ok"}, {clock + 1})
  \/ AdminPUT({"admin"}, UNION {DashboardPutBodies(id) : id \in PutIds}, {"none"}, {"ok"})
  \/ AdminDELETE({"admin"}, {"none"})
  \/ CreateEvent
  \/ LegacyRegister(LegacyBodies, {"none"})

SpecLegacy == Init /\ [][NextLegacy]_vars

(***************************************************************************)
(* SpecConc: registration requests handled concurrently.  A request runs   *)
(* from one await to the next in one step; between two steps of a request  *)
(* any other request can take steps.                                       *)
(***************************************************************************)
\* a request between two awaits: pc names the await it is about to pass
InFlight(body, pc, s, calls, seen) ==
  [body |-> body, pc |-> pc, status |-> s.status, error |-> s.error,
   calls |-> calls \o s.calls, seen |-> seen]

\* the request moves to the await next, or is answered
Advance(i, s, next, seen) ==
  reqs' = [reqs EXCEPT ![i] = InFlight(@.body, IF s.pass THEN next ELSE "done", s, @.calls, seen)]

ReqCompany(i) == decodeURIComponent(reqs[i].body.companyName).val

\* lines 8-69, up to the first await
RegStart(Bodies) ==
  \E body \in Bodies :
    /\ Len(reqs) < MaxRequests
    /\ LET v == RegValidate(body) IN
       reqs' = Append(reqs, InFlight(body, IF v.pass THEN "sheet" ELSE "done", v, <<>>, 0))
    /\ UNCHANGED <<companiesSheet, companiesData, sheets, clock, last, page>>

\* await getSheetData(companyName), line 76
RegStepSheet ==
  \E i \in 1..Len(reqs) :
    /\ reqs[i].pc = "sheet"
    /\ Advance(i, RegCompanySheet(World, ReqCompany(i), "none"), "companies", 0)
    /\ UNCHANGED <<companiesSheet, companiesData, sheets, clock, last, page>>

\* await getSheetData('companies'), line 96
RegStepCompanies ==
  \E i \in 1..Len(reqs) :
    /\ reqs[i].pc = "companies"
    /\ Advance(i, RegCompanyStatus(World, ReqCompany(i), "none"), "table", 0)
    /\ UNCHANGED <<companiesSheet, companiesData, sheets, clock, last, page>>

\* await getTableData(companyName, eventName), line 132, and the scan
RegStepTable ==
  \E i \in 1..Len(reqs) :
    /\ reqs[i].pc = "table"
    /\ Advance(i, RegEvent(World, ReqCompany(i), reqs[i].body, "none"), "append",
               Len(getTableData(World, ReqCompany(i), reqs[i].body.eventName).val))
    /\ UNCHANGED <<companiesSheet, companiesData, sheets, clock, last, page>>

\* await addToTable(...), line 198, and the response
RegStepAppend ==
  \E i \in 1..Len(reqs), now \in Nows({clock, clock + 1}) :
    /\ reqs[i].pc = "append"
    /\ LET r == RegAppend(World, reqs[i].calls, ReqCompany(i), reqs[i].body, now, "none") IN
       /\ WithinBounds(r.w)
       /\ companiesSheet' = r.w.cs /\ companiesData' = r.w.cd /\ sheets' = r.w.sh
       /\ reqs' = [reqs EXCEPT ![i] = [@ EXCEPT !.pc = "done", !.status = r.status,
                                                !.error = r.error, !.calls = r.calls]]
    /\ clock' = now
    /\ UNCHANGED <<last, page>>

NextConc ==
  \/ AdminPOST({"admin"}, {PostBody("acme", "u1", "pw1", Undefined)}, {"none"}, {"ok"},
               {clock + 1})
  \/ CreateEvent
  \/ RegStart({RegBody("acme", "launch", a[1], a[2]) : a \in Attendees})
  \/ RegStepSheet
  \/ RegStepCompanies
  \/ RegStepTable
  \/ RegStepAppend

SpecConc == Init /\ [][NextConc]_vars

(***************************************************************************)
(* SpecEdit: two companies, events, and PUT bodies for the company created *)
(* first that supply each column alone and several columns together.       *)
(***************************************************************************)
FullPutBodies(id) ==
  {PutBody(id, n, Undefined, Undefined, Undefined, Undefined, Undefined) : n \in CompanyNames}
  \cup {PutBody(id, Undefined, "u2", Undefined, Undefined, Undefined, Undefined),
        PutBody(id, Undefined, Undefined, "pw2", Undefined, Undefined, Undefined),
        PutBody(id, Undefined, Undefined, Undefined, "data:image/png", Undefined, Undefined),
        PutBody(id, "beta", Undefined, "pw2", Undefined, "disabled", Undefined),
        ToggleBody(id, "enabled"), ToggleBody(id, "disabled"),
        PutBody(id, Undefined, Undefined, Undefined, Undefined, Undefined, JsTrue),
        RestoreBody(id)}

NextEdit ==
  \/ AdminPOST({"admin"}, {PostBody("acme", "u1", "pw1", Undefined)}, {"none"}, {"ok"},
               {clock + 1})
  \/ AdminPOST({"admin"}, {PostBody("beta", "u2", "pw1", "data:image/png")}, {"none"},
               {"ok", "failed"}, {clock + 1})
  \/ AdminPUT({"admin"}, UNION {FullPutBodies(id) : id \in {"company_1", "company_x", Undefined}}, {"none"}, {"ok", "failed"})
  \/ CreateEvent

SpecEdit == Init /\ [][NextEdit]_vars

(***************************************************************************)
(* SpecEvents: one company with two events whose tables are in the states  *)
(* the events endpoint can leave them in (with and without an EventStatus  *)
(* column, with and without rows), registrations for events that exist and *)
(* that do not, and collaborators that fail.                               *)
(***************************************************************************)
\* the header of an event table that records the event's status
StatusHeader == Append(EventHeader, "EventStatus")

\* a row of such a table
StatusRow(email, whatsappNumber, eventStatus) ==
  <<"Bob", whatsappNumber, "29812121234567", email, "BA", "Giza", "30", "male",
    toISOString(0), eventStatus>>

\* the tables an event can have before the registrations of this model
EventTables ==
  {<<>>,
   <<EventHeader>>,
   <<StatusHeader>>,
   <<StatusHeader, StatusRow("c@x.io", "0100000003", "disabled")>>,
   <<StatusHeader, StatusRow("c@x.io", "0100000003", "enabled")>>,
   <<StatusHeader, StatusRow("c@x.io", "0100000003", "enabled"),
     StatusRow("d@x.io", "0100000004", "disabled")>>}

\* the events endpoint leaves a table for an event of a company
CreateEventTable(Events, Tables) ==
  \E n \in DOMAIN sheets, e \in Events, t \in Tables :
    /\ e \notin DOMAIN sheets[n]
    /\ sheets' = [sheets EXCEPT ![n] = [x \in DOMAIN sheets[n] \cup {e} |->
                                         IF x = e THEN t ELSE sheets[n][x]]]
    /\ last' = [NoRequest EXCEPT !.op = "createEvent"]
    /\ UNCHANGED <<companiesSheet, companiesData, clock, reqs, page>>

\* registrations for two events that can exist and one that never does
EventRegBodies ==
  {RegBody("acme", e, a[1], a[2]) :
     e \in {"launch", "gala", "expo"},
     a \in {<<"a@x.io", "0100000001">>, <<"a@x.io", "0100000002">>}}

NextEvents ==
  \/ AdminPOST({"admin"}, {PostBody("acme", "u1", "pw1", Undefined)}, {"none"}, {"ok"},
               {clock + 1})
  \/ AdminPUT({"admin"}, {ToggleBody(id, st) : id \in KnownIds, st \in {"enabled", "disabled"}},
              {"none"}, {"ok"})
  \/ CreateEventTable({"launch", "gala"}, EventTables)
  \/ Register(EventRegBodies,
              {"none", "getSheetData", "getCompanies", "getTableData", "addToTable"})

SpecEvents == Init /\ [][NextEvents]_vars

(***************************************************************************)
(* SpecPage: one registration page open in a browser while the admin       *)
(* creates and toggles the company and its event is created.  The page is  *)
(* served by the handler of route.ts or by that of part_001.               *)
(***************************************************************************)
\* lines 376-545: the inputs are required and the age has min 15, max 100,
\* so the browser submits the form only when they are satisfied
FormSubmittable(formData) ==
  /\ \A f \in DOMAIN formData : formData[f] # ""
  /\ ~IsNaNNumber(formData.age)
  /\ NumberOf(formData.age) >= 15 /\ NumberOf(formData.age) <= 100

\* what a visitor types: a valid form, a short phone number, an email
\* without a dot
PageForms ==
  LET valid == [name |-> "Ann", whatsapp |-> "0100000001", nationalId |-> "29901011234567",
                email |-> "a@x.io", education |-> "student", universityCollege |-> "Cairo",
                age |-> "20", gender |-> "female"]
  IN {valid, [valid EXCEPT !.whatsapp = "010000001"], [valid EXCEPT !.email = "a@x"]}

\* the effect of the first render: the events are fetched
PageMount ==
  /\ page.loading
  /\ page' = fetchEventDetails(page, EventsGET(World, PageCompany))
  /\ UNCHANGED <<companiesSheet, companiesData, sheets, clock, last, reqs>>

\* handleChange, for the inputs of the form together
PageChange(Forms) ==
  \E formData \in Forms :
    /\ View(page) = "form" /\ ~page.submitting
    /\ formData # page.formData
    /\ page' = [page EXCEPT !.formData = formData]
    /\ UNCHANGED <<companiesSheet, companiesData, sheets, clock, last, reqs>>

\* the submit button is pressed: handleSubmit runs up to the fetch
PageSubmit ==
  /\ View(page) = "form" /\ ~page.submitting
  /\ FormSubmittable(page.formData)
  /\ page' = handleSubmitStart(page)
  /\ UNCHANGED <<companiesSheet, companiesData, sheets, clock, last, reqs>>

\* the request is handled and handleSubmit runs from the response on
PageResponse(Handlers) ==
  \E h \in Handlers :
    /\ page.submitting
    /\ LET r == IF h = "route.ts"
                THEN RegisterPOST(World, PageBodyAsRead(page), clock, "none")
                ELSE LegacyRegisterPOST(World, PageBody(page), clock, "none")
       IN /\ WithinBounds(r.w)
          /\ companiesSheet' = r.w.cs /\ companiesData' = r.w.cd /\ sheets' = r.w.sh
          /\ clock' = IF r.t < 0 THEN clock ELSE r.t
          /\ last' = [op |-> "register", session |-> "", req |-> PageBody(page),
                      fail |-> "none", up |-> "none", status |-> r.status,
                      error |-> r.error, calls |-> r.calls, body |-> r.body]
          /\ page' = handleSubmitEnd(page, r)
    /\ UNCHANGED reqs

\* line 359: Register Another Person
PageAnother ==
  /\ View(page) = "success"
  /\ page' = [page EXCEPT !.success = FALSE]
  /\ UNCHANGED <<companiesSheet, companiesData, sheets, clock, last, reqs>>

\* the visitor reloads the page
PageReload ==
  /\ ~page.loading /\ ~page.submitting
  /\ page' = PageInit
  /\ UNCHANGED <<companiesSheet, companiesData, sheets, clock, last, reqs>>

NextPage ==
  \/ AdminPOST({"admin"}, {PostBody("acme", "u1", "pw1", Undefined)}, {"none"}, {"ok"},
               {clock + 1})
  \/ AdminPUT({"admin"}, {ToggleBody(id, st) : id \in KnownIds, st \in {"enabled", "disabled"}},
              {"none"}, {"ok"})
  \/ CreateEvent
  \/ PageMount
  \/ PageChange(PageForms)
  \/ PageSubmit
  \/ PageResponse({"route.ts", "part_001"})
  \/ PageAnother
  \/ PageReload

SpecPage == Init /\ [][NextPage]_vars

(***************************************************************************)
(* SpecDeleted: one company that is marked deleted by DELETE or by a PUT   *)
(* with deleted true, restored by a PUT with deleted false, and            *)
(* registrations for its event under its name and under its sheet's name.  *)
(***************************************************************************)
DeletedRegBodies ==
  {RegBody(c, "launch", a[1], a[2]) :
     c \in {"acme", DeletedSheetName("acme")},
     a \in {<<"a@x.io", "0100000001">>, <<"b@x.io", "0100000002">>}}

NextDeleted ==
  \/ AdminPOST({"admin"}, {PostBody("acme", "u1", "pw1", Undefined)}, {"none"}, {"ok"},
               {clock + 1})
  \/ AdminPUT({"admin"},
              UNION {{PutBody(id, Undefined, Undefined, Undefined, Undefined, Undefined, JsTrue),
                      RestoreBody(id)} : id \in KnownIds},
              {"none"}, {"ok"})
  \/ AdminDELETE({"admin"}, {"none"})
  \/ CreateEvent
  \/ Register(DeletedRegBodies, {"none"})

SpecDeleted == Init /\ [][NextDeleted]_vars

(***************************************************************************)
(* SpecFaults: the companies endpoint with collaborators that fail: each   *)
(* spreadsheet call of POST, PUT and DELETE can throw, and so can the      *)
(* image upload.                                                           *)
(***************************************************************************)
\* the spreadsheet calls of POST that can fail, in the order of lines 67-113
PostFails ==
  {"none", "getSheetData", "createCompanies", "appendHeader", "getSheetData2",
   "appendToSheet", "createSheet"}

\* those of PUT (lines 159-223) and DELETE (lines 270-293)
PutFails == {"none", "getSheetData", "updateRow", "renameSheet"}

NextFaults ==
  \/ AdminPOST({"admin"},
               {PostBody("acme", "u1", "pw1", "data:image/png"),
                PostBody("beta", "u2", "pw1", Undefined),
                PostBody("acme", Undefined, "pw1", Undefined)},
               PostFails, {"ok", "throw"}, {clock + 1})
  \/ AdminPUT({"admin"},
              UNION {{PutBody(id, "beta", "u2", Undefined, Undefined, Undefined, Undefined),
                      ToggleBody(id, "enabled")} : id \in PutIds},
              PutFails, {"ok"})
  \/ AdminDELETE({"admin"}, PutFails)
  \/ AdminDELETE({""}, {"none"})

SpecFaults == Init /\ [][NextFaults]_vars

(***************************************************************************)
(* SpecClock: the companies endpoint with a clock that can show the same   *)
(* millisecond to two requests.                                            *)
(***************************************************************************)
NextClock ==
  \/ AdminPOST({"admin"},
               {PostBody("acme", "u1", "pw1", Undefined), PostBody("beta", "u2", "pw1", Undefined)},
               {"none"}, {"ok"}, {clock, clock + 1})
  \/ AdminPUT({"admin"}, UNION {DashboardPutBodies(id) : id \in KnownIds}, {"none"}, {"ok"})
  \/ AdminDELETE({"admin"}, {"none"})

SpecClock == Init /\ [][NextClock]_vars

(***************************************************************************)
(* SpecRace: PUT and DELETE requests for one company handled concurrently. *)
(* A request runs from one await to the next in one step: the read         *)
(* (getSheetData), the write (updateRow) and the rename (renameSheet);     *)
(* between two steps of a request any other request can take steps.        *)
(* seen counts the writes done when the request read, wrote numbers its    *)
(* own write, row is the row it wrote.                                     *)
(***************************************************************************)
\* the number of writes done so far
Writes == Cardinality({i \in 1..Len(reqs) : reqs[i].wrote > 0})

\* a PUT or DELETE by an admin arrives (lines 136-156, 247-267)
AdmStart(Ops) ==
  \E o \in Ops :
    /\ Len(reqs) < MaxRequests
    /\ reqs' = Append(reqs, [op |-> o.op, req |-> o.req, pc |-> "read", status |-> 0,
                             companies |-> <<>>, idx |-> 0, seen |-> 0, wrote |-> 0,
                             row |-> <<>>])
    /\ UNCHANGED <<companiesSheet, companiesData, sheets, clock, last, page>>

\* await getSheetData('companies') and the checks on what was read
\* (lines 159-189, 270-281)
AdmRead ==
  \E i \in 1..Len(reqs) :
    /\ reqs[i].pc = "read"
    /\ LET g == getSheetData(World, "companies")
           companies == Slice1(g.val)
           idx == CompanyIndex(companies, reqs[i].req.id)
           st == IF ~g.ok THEN 500
                 ELSE IF idx = 0 THEN 404
                 ELSE IF reqs[i].op = "PUT" /\ PUTUsernameTaken(companies, idx, reqs[i].req.username)
                 THEN 400 ELSE 0
       IN reqs' = [reqs EXCEPT ![i] = [@ EXCEPT !.pc = IF st = 0 THEN "write" ELSE "done",
                                                !.status = st, !.companies = companies,
                                                !.idx = idx, !.seen = Writes]]
    /\ UNCHANGED <<companiesSheet, companiesData, sheets, clock, last, page>>

\* await updateRow(...) with the row built from what was read (lines 209-219,
\* 287-290)
AdmWrite ==
  \E i \in 1..Len(reqs) :
    /\ reqs[i].pc = "write"
    /\ LET q == reqs[i]
           u == IF q.op = "PUT"
                THEN PUTUpdate(World, <<>>, q.companies, q.idx, q.req, clock, "renameSheet", "ok")
                ELSE updateRow(World, q.idx, MarkDeleted(q.companies[q.idx]))
           renames == IF q.op = "PUT" THEN NameChanges(q.req.name, q.companies[q.idx][2])
                      ELSE TRUE
       IN /\ companiesData' = u.w.cd
          /\ reqs' = [reqs EXCEPT ![i] = [@ EXCEPT !.pc = IF renames THEN "rename" ELSE "done",
                                                   !.status = IF renames THEN 0 ELSE 200,
                                                   !.wrote = Writes + 1,
                                                   !.row = u.w.cd[q.idx + 1]]]
    /\ UNCHANGED <<companiesSheet, sheets, clock, last, page>>

\* await renameSheet(...) and the response (lines 222-236, 293-298)
AdmRename ==
  \E i \in 1..Len(reqs) :
    /\ reqs[i].pc = "rename"
    /\ LET q == reqs[i]
           currentName == q.companies[q.idx][2]
           r == renameSheet(World, currentName,
                            IF q.op = "PUT" THEN q.req.name ELSE DeletedSheetName(currentName))
       IN /\ sheets' = r.w.sh
          /\ reqs' = [reqs EXCEPT ![i] = [@ EXCEPT !.pc = "done",
                                                   !.status = IF r.ok THEN 200 ELSE 500]]
    /\ UNCHANGED <<companiesSheet, companiesData, clock, last, page>>

\* a status-only PUT, a PUT of the username and a DELETE of the first company
RaceOps ==
  {[op |-> "PUT", req |-> ToggleBody("company_1", "enabled")],
   [op |-> "PUT", req |-> PutBody("company_1", Undefined, "u2", Undefined, Undefined,
                                  Undefined, Undefined)],
   [op |-> "DELETE", req |-> [id |-> "company_1"]]}

NextRace ==
  \/ AdminPOST({"admin"}, {PostBody("acme", "u1", "pw1", Undefined)}, {"none"}, {"ok"},
               {clock + 1})
  \/ AdmStart(RaceOps)
  \/ AdmRead
  \/ AdmWrite
  \/ AdmRename

SpecRace == Init /\ [][NextRace]_vars

(***************************************************************************)
(* SpecResponses: every endpoint of the snapshot, for the payloads of      *)
(* their responses: the companies endpoint with a password change, the     *)
(* registration endpoint and the test endpoint.                            *)
(***************************************************************************)
\* GET /api/test?company=...&event=...
TestRequest(CompanyParams, EventParams) ==
  \E company \in CompanyParams, event \in EventParams :
    Handled("test", "", [company |-> company, event |-> event], "none",
            TestGET(World, company, event, clock))

NextResponses ==
  \/ AdminGET({"admin", ""}, {"none", "getSheetData"})
  \/ AdminPOST({"admin"},
               {PostBody("acme", "u1", "pw1", Undefined), PostBody("beta", "u2", "pw3", Undefined)},
               {"none"}, {"ok"}, {clock + 1})
  \/ AdminPUT({"admin"},
              UNION {{PutBody(id, Undefined, Undefined, "pw2", Undefined, Undefined, Undefined),
                      ToggleBody(id, "enabled")} : id \in KnownIds},
              {"none"}, {"ok"})
  \/ AdminDELETE({"admin"}, {"none"})
  \/ CreateEvent
  \/ Register({RegBody("acme", "launch", "a@x.io", "0100000001")}, {"none", "addToTable"})
  \/ TestRequest({Null, "acme", "companies"}, {Null, "launch"})

SpecResponses == Init /\ [][NextResponses]_vars

(***************************************************************************)
(* Properties.                                                             *)
(***************************************************************************)
\* the companies of the table, as the handlers see them: the rows below the first
Companies == Slice1(companiesData)

\* the positions of the registration rows of a table holding value in column col
RowsWith(tableData, col, value) ==
  {i \in 2..Len(tableData) : At(tableData[i], col) = value}

\* C1: a registration body in which at least one of the ten required fields
\* is absent or empty is answered 400 "All fields are required", and the
\* handler makes no spreadsheet call.
C1_MissingFieldRejected ==
  (last.op = "register" /\ \E f \in RequiredFields : last.req[f] \in {Undefined, ""})
    => (last.status = 400 /\ last.error = "All fields are required" /\ last.calls = <<>>)

\* C2: a registration that reaches the duplicate scan of an event whose table
\* already holds a row with the same email or the same phone number is
\* answered 400 "You are already registered for this event" and appends no
\* row (stated for the handler of part_001).
C2_SecondRegistrationRejected ==
  [][(/\ last'.op = "register"
      /\ LET b == last'.req
             cn == decodeURIComponent(b.companyName).val
             t == getTableData(World, cn, b.eventName)
         IN /\ LegacyValidate(b).pass
            /\ LegacyCompanySheet(World, cn, "none").pass
            /\ LegacyCompanyStatus(World, cn, "none").pass
            /\ t.ok /\ Len(t.val) > 0 /\ ~EventDisabled(t.val)
            /\ RowsWith(t.val, 4, b.email) \cup RowsWith(t.val, 2, b.whatsapp) # {})
     => (/\ last'.status = 400
         /\ last'.error = "You are already registered for this event"
         /\ sheets' = sheets)]_vars

\* C3: while a company's row has status 'disabled', a registration with valid
\* fields for an event of that company is answered 403.
C3_DisabledCompanyRejects ==
  (/\ last.op = "register"
   /\ RegValidate(last.req).pass
   /\ LET cn == decodeURIComponent(last.req.companyName).val IN
      /\ \E i \in 1..Len(Companies) : Companies[i][2] = cn /\ Companies[i][6] = "disabled"
      /\ cn \in DOMAIN sheets
      /\ last.req.eventName \in DOMAIN sheets[cn])
    => last.status = 403

\* C4: with requests handled one at a time, no two registration rows of an
\* event table share the email and no two share the phone number.
C4_NoDuplicateRegistration ==
  \A n \in DOMAIN sheets : \A e \in DOMAIN sheets[n] :
    \A i, j \in 2..Len(sheets[n][e]) :
      i # j => /\ sheets[n][e][i][4] # sheets[n][e][j][4]
               /\ sheets[n][e][i][2] # sheets[n][e][j][2]

\* a second registration was turned down and the table holds two attendees
C4_Witness ==
  /\ last.op = "register" /\ last.status = 400
  /\ last.error = "You are already registered for this event"
  /\ \E n \in DOMAIN sheets : \E e \in DOMAIN sheets[n] : Len(sheets[n][e]) = 3

\* C5: two concurrent registrations for the same event with the same email
\* that both read the event table before either appends are both answered
\* with success, and the table then holds two rows with that email.
C5_RaceAppendsBoth ==
  \A i, j \in 1..Len(reqs) :
    (/\ i # j
     /\ reqs[i].pc = "done" /\ reqs[i].status = 200
     /\ reqs[j].pc = "done" /\ reqs[j].status = 200
     /\ reqs[i].body.companyName = reqs[j].body.companyName
     /\ reqs[i].body.eventName = reqs[j].body.eventName
     /\ reqs[i].body.email = reqs[j].body.email)
    => LET t == getTableData(World, ReqCompany(i), reqs[i].body.eventName) IN
       t.ok /\ Cardinality(RowsWith(t.val, 4, reqs[i].body.email)) >= 2

\* both requests saw the header row alone, both succeeded, two rows share the email
C5_Witness ==
  \E i, j \in 1..Len(reqs) :
    /\ i # j
    /\ reqs[i].pc = "done" /\ reqs[i].status = 200 /\ reqs[i].seen = 1
    /\ reqs[j].pc = "done" /\ reqs[j].status = 200 /\ reqs[j].seen = 1
    /\ reqs[i].body.email = reqs[j].body.email
    /\ LET t == getTableData(World, ReqCompany(i), reqs[i].body.eventName) IN
       t.ok /\ Cardinality(RowsWith(t.val, 4, reqs[i].body.email)) = 2

\* C6: a GET, POST, PUT or DELETE on /api/companies without an admin session
\* is answered 401 "Unauthorized", makes no collaborator call and leaves the
\* spreadsheet as it was.
C6_OutsidersRejected ==
  [][(last'.op \in {"GET", "POST", "PUT", "DELETE"} /\ last'.session # "admin")
     => (/\ last'.status = 401 /\ last'.error = "Unauthorized"
         /\ last'.calls = <<>>
         /\ UNCHANGED <<companiesSheet, companiesData, sheets>>)]_vars

\* a company's session asked to create a company while companies exist
C6_Witness ==
  /\ last.op = "POST" /\ last.session = "company" /\ last.status = 401
  /\ Len(Companies) > 0

\* C7: a POST by an admin with name, username and password whose username is
\* that of a company not marked deleted is answered 400 "Username already
\* exists"; no row is appended, no image uploaded and no sheet created.
C7_TakenUsernameRejected ==
  [][(/\ last'.op = "POST" /\ last'.session = "admin" /\ last'.fail = "none"
      /\ ~Falsy(last'.req.name) /\ ~Falsy(last'.req.username) /\ ~Falsy(last'.req.password)
      /\ \E i \in 1..Len(Companies) :
           Companies[i][7] # "true" /\ Companies[i][3] = last'.req.username)
     => (/\ last'.status = 400 /\ last'.error = "Username already exists"
         /\ \A k \in 1..Len(last'.calls) :
              last'.calls[k] \notin {"appendToSheet", "uploadImage", "createSheet"}
         /\ UNCHANGED <<companiesSheet, companiesData, sheets>>)]_vars

\* a body with an image was turned down for its username
C7_Witness ==
  /\ last.op = "POST" /\ last.status = 400 /\ last.error = "Username already exists"
  /\ ~Falsy(last.req.image)

\* C8: no two companies with deleted = 'false' have the same username.
C8_UniqueActiveUsernames ==
  \A i, j \in 1..Len(Companies) :
    (i # j /\ Companies[i][7] # "true" /\ Companies[j][7] # "true")
      => Companies[i][3] # Companies[j][3]

\* a deleted company was restored next to another company
C8_Witness ==
  /\ last.op = "PUT" /\ last.status = 200 /\ last.req.deleted = JsFalse
  /\ Len(Companies) = 2
  /\ Companies[1][7] # "true" /\ Companies[2][7] # "true"
  /\ \E n \in DOMAIN sheets : \E c \in CompanyNames : n = DeletedSheetName(c)

\* C9: no two rows of the companies table have the same name.
C9_UniqueNames ==
  \A i, j \in 1..Len(Companies) : i # j => Companies[i][2] # Companies[j][2]

\* C10: a successful DELETE of a company that was not marked deleted sets the
\* deleted column of its row to 'true' and leaves the row's other columns as
\* they were, renames the sheet of the company's name N to N-deleted, and the
\* dashboard with showDeleted = false lists the company no longer.
C10_SoftDelete ==
  [][(/\ last'.op = "DELETE" /\ last'.status = 200
      /\ Companies[CompanyIndex(Companies, last'.req.id)][7] # "true")
     => LET i == CompanyIndex(Companies, last'.req.id)
            N == Companies[i][2]
            after == Slice1(companiesData')
        IN /\ Len(after) = Len(Companies)
           /\ after[i][7] = "true"
           /\ \A c \in 1..6 : after[i][c] = Companies[i][c]
           /\ N \in DOMAIN sheets /\ N \notin DOMAIN sheets'
           /\ DeletedSheetName(N) \in DOMAIN sheets'
           /\ sheets'[DeletedSheetName(N)] = sheets[N]
           /\ i \in DashboardList(CompaniesList(companiesData), FALSE)
           /\ i \notin DashboardList(CompaniesList(companiesData'), FALSE)]_vars

\* a company with a registration was deleted
C10_Witness ==
  /\ last.op = "DELETE" /\ last.status = 200
  /\ \E n \in DOMAIN sheets : \E e \in DOMAIN sheets[n] :
       /\ \E c \in CompanyNames : n = DeletedSheetName(c)
       /\ Len(sheets[n][e]) > 1
  /\ \E i \in 1..Len(Companies) :
       Companies[i][1] = last.req.id /\ Companies[i][7] = "true"

\* C11: while the row of a company named N is marked deleted by a DELETE, a
\* registration with valid fields that names N is answered 404.
C11_DeletedCompanyUnreachable ==
  (/\ last.op = "register"
   /\ RegValidate(last.req).pass
   /\ \E i \in 1..Len(Companies) :
        /\ Companies[i][2] = decodeURIComponent(last.req.companyName).val
        /\ Companies[i][7] = "true")
    => last.status = 404

\* C12: the dashboard's restore of a company named N that a DELETE left with
\* its sheet named N-deleted sets the row's deleted column to 'false', keeps
\* its name and leaves every sheet as it was (N-deleted exists, N does not);
\* every registration with valid fields that names N is then answered 404.
C12_RestoreKeepsSheetName ==
  [][(/\ last'.op = "PUT" /\ last'.status = 200
      /\ last'.req = RestoreBody(last'.req.id)
      /\ LET i == CompanyIndex(Companies, last'.req.id) IN
         /\ i # 0
         /\ Companies[i][7] = "true"
         /\ Companies[i][2] \notin DOMAIN sheets
         /\ DeletedSheetName(Companies[i][2]) \in DOMAIN sheets)
     => LET i == CompanyIndex(Companies, last'.req.id)
            N == Companies[i][2]
            after == [cs |-> companiesSheet', cd |-> companiesData', sh |-> sheets']
        IN /\ Slice1(companiesData')[i][7] = "false"
           /\ Slice1(companiesData')[i][2] = N
           /\ sheets' = sheets
           /\ \A b \in ValidRegBodies :
                b.companyName = N => RegisterPOST(after, b, clock', "none").status = 404]_vars

\* a company whose event has a registration was deleted and then restored
C12_Witness ==
  /\ last.op = "PUT" /\ last.status = 200 /\ last.req.deleted = JsFalse
  /\ \E i \in 1..Len(Companies) :
       /\ Companies[i][1] = last.req.id
       /\ Companies[i][7] = "false"
       /\ Companies[i][2] \notin DOMAIN sheets
       /\ DeletedSheetName(Companies[i][2]) \in DOMAIN sheets
       /\ \E e \in DOMAIN sheets[DeletedSheetName(Companies[i][2])] :
            Len(sheets[DeletedSheetName(Companies[i][2])][e]) > 1

\* C13: a PUT answered 200 whose body carries a name different from the name
\* stored in the row of its id leaves the sheet that had the old name under
\* the new name, with its tables, leaves every other sheet as it was, and
\* the row's name column holds the new name; whether the row is marked
\* deleted or not.
C13_RenameMovesSheet ==
  [][(/\ last'.op = "PUT" /\ last'.status = 200
      /\ ~Falsy(last'.req.name)
      /\ last'.req.name # Companies[CompanyIndex(Companies, last'.req.id)][2])
     => LET i == CompanyIndex(Companies, last'.req.id)
            old == Companies[i][2]
            new == last'.req.name
        IN /\ old \in DOMAIN sheets /\ old \notin DOMAIN sheets'
           /\ new \notin DOMAIN sheets /\ new \in DOMAIN sheets'
           /\ sheets'[new] = sheets[old]
           /\ \A n \in DOMAIN sheets \ {old} : n \in DOMAIN sheets' /\ sheets'[n] = sheets[n]
           /\ DOMAIN sheets' = (DOMAIN sheets \ {old}) \cup {new}
           /\ Slice1(companiesData')[i][2] = new]_vars

\* a company was renamed from acme to beta and its sheet with it
C13_Witness ==
  /\ last.op = "PUT" /\ last.status = 200 /\ last.req.name = "beta"
  /\ "beta" \in DOMAIN sheets /\ "acme" \notin DOMAIN sheets
  /\ \E i \in 1..Len(Companies) : Companies[i][1] = last.req.id /\ Companies[i][2] = "beta"
  /\ \A i \in 1..Len(Companies) : Companies[i][2] # "acme"

\* C14: a registration whose fields pass validation and whose company name
\* is the name of no row of the companies table is answered 404 (stated for
\* the handler of part_001).
C14_UnknownCompanyRejected ==
  (/\ last.op = "register"
   /\ LegacyValidate(last.req).pass
   /\ \A i \in 1..Len(Companies) :
        Companies[i][2] # decodeURIComponent(last.req.companyName).val)
    => last.status = 404

\* the table a registration body names, empty when the sheet or the table is missing
NamedTable(b) ==
  LET cn == decodeURIComponent(b.companyName).val IN
  IF cn \in DOMAIN sheets /\ b.eventName \in DOMAIN sheets[cn]
  THEN sheets[cn][b.eventName] ELSE <<>>

\* the first data row of table t has 'disabled' under the header 'EventStatus'
FirstRowDisabled(t) ==
  /\ Len(t) > 1
  /\ \E c \in 1..Len(t[1]) : t[1][c] = "EventStatus" /\ At(t[2], c) = "disabled"

\* C15: a registration that passes validation and the company checks, with
\* no collaborator failing, is answered 404 when the event's table is missing
\* or empty and 403 when the table has an 'EventStatus' column whose cell in
\* the first data row is 'disabled', and appends no row in either case; it
\* is not answered 403 when that cell is not 'disabled' (whatever later rows
\* hold) nor when the table holds its header row alone.
C15_EventChecks ==
  [][(/\ last'.op = "register" /\ last'.fail = "none"
      /\ RegValidate(last'.req).pass
      /\ LET cn == decodeURIComponent(last'.req.companyName).val IN
         /\ RegCompanySheet(World, cn, "none").pass
         /\ RegCompanyStatus(World, cn, "none").pass)
     => LET t == NamedTable(last'.req) IN
        /\ t = <<>> => (last'.status = 404 /\ sheets' = sheets)
        /\ (t # <<>> /\ FirstRowDisabled(t)) => (last'.status = 403 /\ sheets' = sheets)
        /\ (t # <<>> /\ ~FirstRowDisabled(t)) => last'.status # 403]_vars

\* a registration for an event marked disabled was turned down
C15_Witness ==
  /\ last.op = "register" /\ last.status = 403
  /\ last.error = "Event registration is currently disabled"
  /\ FirstRowDisabled(NamedTable(last.req))

\* C16: a registration is answered with success exactly when the row [name,
\* whatsappNumber, nationalId, email, education, universityCollege, age,
\* gender, timestamp] was appended to the table of the named event, and the
\* response carries the same name, email and timestamp; any other answer is
\* a 400, 403, 404 or 500 and leaves every table as it was; no registration
\* changes the companies table, the set of sheets and tables, or a table
\* other than the one it names.
C16_SuccessIffRowAppended ==
  [][(last'.op = "register")
     => LET b == last'.req
            cn == decodeURIComponent(b.companyName).val
        IN /\ companiesSheet' = companiesSheet /\ companiesData' = companiesData
           /\ DOMAIN sheets' = DOMAIN sheets
           /\ \A n \in DOMAIN sheets :
                /\ DOMAIN sheets'[n] = DOMAIN sheets[n]
                /\ \A e \in DOMAIN sheets[n] :
                     (n # cn \/ e # b.eventName) => sheets'[n][e] = sheets[n][e]
           /\ IF last'.status = 200
              THEN /\ NamedTable(b) # <<>>
                   /\ Len(last'.body) = 1
                   /\ sheets'[cn][b.eventName] =
                        Append(sheets[cn][b.eventName],
                               <<b.name, b.whatsappNumber, b.nationalId, b.email, b.education,
                                 b.universityCollege, b.age, b.gender,
                                 last'.body[1].registrationDate>>)
                   /\ last'.body[1].name = b.name
                   /\ last'.body[1].email = b.email
              ELSE /\ last'.status \in {400, 403, 404, 500}
                   /\ sheets' = sheets]_vars

\* a registration succeeded for one of two events with rows; the other table has rows too
C16_Witness ==
  /\ last.op = "register" /\ last.status = 200
  /\ LET t == NamedTable(last.req) IN
     /\ Len(t) > 2
     /\ t[Len(t)][4] = last.req.email
     /\ t[Len(t)][9] = last.body[1].registrationDate
  /\ \E n \in DOMAIN sheets : \E e \in DOMAIN sheets[n] :
       e # last.req.eventName /\ Len(sheets[n][e]) > 1

\* every one of the ten required fields of a registration body is present
AllFieldsPresent(b) == \A f \in RequiredFields : ~Falsy(b[f])

\* C17: a registration body with the ten required fields present whose email
\* does not match ^[^\s@]+@[^\s@]+\.[^\s@]+$ is answered 400 "Invalid email
\* format", and the handler makes no spreadsheet call.
C17_BadEmailRejected ==
  (/\ last.op = "register"
   /\ AllFieldsPresent(last.req)
   /\ ~emailRegexTest(last.req.email))
    => (last.status = 400 /\ last.error = "Invalid email format" /\ last.calls = <<>>)

\* C18: a registration body with the ten required fields present and a
\* well-formed email whose phone is not 10 to 15 decimal digits is answered
\* 400 "Invalid WhatsApp number format", and the handler makes no
\* spreadsheet call.
C18_BadPhoneRejected ==
  (/\ last.op = "register"
   /\ AllFieldsPresent(last.req)
   /\ emailRegexTest(last.req.email)
   /\ ~phoneRegexTest(last.req.whatsappNumber))
    => (last.status = 400 /\ last.error = "Invalid WhatsApp number format"
        /\ last.calls = <<>>)

\* C19: a POST answered 200 with name N and username U leaves the companies
\* table with one more company row, the last, holding N, U, status 'enabled'
\* and deleted 'false'; the rows that were there are as they were; a sheet
\* named N exists; the response reports N, U, status 'enabled' and deleted
\* false.
C19_CreateAppendsOneRow ==
  [][(last'.op = "POST" /\ last'.status = 200)
     => LET b == last'.req
            after == Slice1(companiesData')
            k == Len(after)
        IN /\ k = Len(Companies) + 1
           /\ \A j \in 1..Len(Companies) : after[j] = Companies[j]
           /\ after[k][2] = b.name /\ after[k][3] = b.username
           /\ after[k][6] = "enabled" /\ after[k][7] = "false"
           /\ b.name \in DOMAIN sheets'
           /\ Len(last'.body) = 1
           /\ last'.body[1].name = b.name /\ last'.body[1].username = b.username
           /\ last'.body[1].status = "enabled" /\ last'.body[1].deleted = JsFalse
           /\ last'.body[1].id = after[k][1]]_vars

\* a second company was created next to one that had been deleted
C19_Witness ==
  /\ last.op = "POST" /\ last.status = 200
  /\ Len(Companies) = 2
  /\ Companies[1][7] = "true"
  /\ Companies[2][2] = last.req.name /\ Companies[2][6] = "enabled"
  /\ last.req.name \in DOMAIN sheets

\* C20: a PUT answered 200 for id X leaves the companies table with the same
\* number of rows, every row other than X's as it was, and in X's row the id
\* and each of the columns name, username, password hash, image, status and
\* deleted whose field is absent from the body as it was.
C20_PartialUpdate ==
  [][(last'.op = "PUT" /\ last'.status = 200)
     => LET b == last'.req
            i == CompanyIndex(Companies, b.id)
            after == Slice1(companiesData')
        IN /\ i # 0
           /\ companiesData'[1] = companiesData[1]
           /\ Len(after) = Len(Companies)
           /\ \A j \in 1..Len(Companies) : j # i => after[j] = Companies[j]
           /\ after[i][1] = Companies[i][1]
           /\ b.name = Undefined => after[i][2] = Companies[i][2]
           /\ b.username = Undefined => after[i][3] = Companies[i][3]
           /\ b.password = Undefined => after[i][4] = Companies[i][4]
           /\ b.image = Undefined => after[i][5] = Companies[i][5]
           /\ b.status = Undefined => after[i][6] = Companies[i][6]
           /\ b.deleted = Undefined => after[i][7] = Companies[i][7]]_vars

\* the password alone was changed for a disabled company with an image, next
\* to a second company
C20_Witness ==
  /\ last.op = "PUT" /\ last.status = 200
  /\ last.req = PutBody(last.req.id, Undefined, Undefined, "pw2", Undefined, Undefined, Undefined)
  /\ Len(Companies) = 2
  /\ \E i \in 1..2 :
       /\ Companies[i][1] = last.req.id
       /\ Companies[i][4] = bcryptHash("pw2")
       /\ Companies[i][5] # ""
       /\ Companies[i][6] = "disabled"

\* C21: a PUT by an admin for a company that exists, whose body supplies a
\* username other than the company's own that another row of the table holds,
\* is answered 400 "Username already exists" and leaves the companies table
\* and the sheets as they were; a PUT whose body supplies the company's own
\* username is not answered with that error.
C21_PutUsernameConflict ==
  [][(/\ last'.op = "PUT" /\ last'.session = "admin" /\ last'.fail = "none"
      /\ CompanyIndex(Companies, last'.req.id) # 0
      /\ ~Falsy(last'.req.username))
     => LET i == CompanyIndex(Companies, last'.req.id)
            U == last'.req.username
            rejected == last'.status = 400 /\ last'.error = "Username already exists"
        IN /\ (U # Companies[i][3] /\ \E j \in 1..Len(Companies) : j # i /\ Companies[j][3] = U)
               => (rejected /\ UNCHANGED <<companiesSheet, companiesData, sheets>>)
           /\ U = Companies[i][3] => (~rejected /\ last'.status = 200)]_vars

\* the second company asked for the username of the first and was turned down
C21_Witness ==
  /\ last.op = "PUT" /\ last.status = 400 /\ last.error = "Username already exists"
  /\ Len(Companies) = 2
  /\ Companies[2][1] = last.req.id
  /\ Companies[1][3] = last.req.username /\ Companies[2][3] # last.req.username

\* C22: a POST by an admin with name N, username, password and an image,
\* whose username no row holds and whose name no sheet has, and whose image
\* upload is answered with success false, is answered 200: one row is
\* appended with an empty image cell, a sheet named N is created and the
\* response reports image null.
C22_FailedUploadStillCreates ==
  [][(/\ last'.op = "POST" /\ last'.session = "admin" /\ last'.fail = "none"
      /\ ~Falsy(last'.req.name) /\ ~Falsy(last'.req.username) /\ ~Falsy(last'.req.password)
      /\ ~Falsy(last'.req.image)
      /\ ~UsernameExists(Companies, last'.req.username)
      /\ last'.req.name \notin DOMAIN sheets
      /\ last'.up = "failed")
     => LET after == Slice1(companiesData')
            k == Len(after)
        IN /\ last'.status = 200
           /\ k = Len(Companies) + 1
           /\ \A j \in 1..Len(Companies) : after[j] = Companies[j]
           /\ after[k][2] = last'.req.name /\ after[k][3] = last'.req.username
           /\ after[k][5] = ""
           /\ DOMAIN sheets' = DOMAIN sheets \cup {last'.req.name}
           /\ Len(last'.body) = 1 /\ last'.body[1].image = Null]_vars

\* a company was created next to another although its image was not stored
C22_Witness ==
  /\ last.op = "POST" /\ last.status = 200 /\ last.up = "failed"
  /\ ~Falsy(last.req.image)
  /\ Len(Companies) = 2
  /\ Companies[2][2] = last.req.name /\ Companies[2][5] = ""
  /\ last.req.name \in DOMAIN sheets
  /\ last.body[1].image = Null

\* C23: a request to the registration endpoint or to the companies endpoint
\* in which a spreadsheet call or the image upload failed is answered 500,
\* never 400, 403 or 404.  (The company's sheet and the event's table exist;
\* the call that failed is the last one the handler made: the first, second,
\* third or fourth of a registration.)
C23_FailuresAnswered500 ==
  LET n == Len(last.calls)
      failed == CASE last.fail \in {"getSheetData", "getSheetData2", "getCompanies"} -> "getSheetData"
                  [] last.fail = "createCompanies" -> "createSheet"
                  [] last.fail = "appendHeader" -> "appendToSheet"
                  [] OTHER -> last.fail
  IN
  /\ (/\ last.op = "register"
      /\ last.req.companyName \in DOMAIN sheets
      /\ last.req.eventName \in DOMAIN sheets[last.req.companyName]
      /\ <<last.fail, n>> \in {<<"getSheetData", 1>>, <<"getCompanies", 2>>,
                               <<"getTableData", 3>>, <<"addToTable", 4>>})
     => last.status = 500
  /\ (/\ last.op \in {"GET", "POST", "PUT", "DELETE"}
      /\ \/ last.up = "throw"
         \/ last.fail # "none" /\ n > 0 /\ last.calls[n] = failed)
     => last.status = 500

\* C24: a registration with no collaborator failing is answered by the first
\* check that fails, in the order: required fields (400), email format (400),
\* phone format (400), the company's sheet exists (404), the company's row
\* exists (404) and is enabled (403), the event's table exists (404), the
\* event is enabled (403), no duplicate (400); a row is appended only when
\* every check passed, and a request answered by one of the first three
\* checks made no spreadsheet call.
C24_ChecksInOrder ==
  [][(last'.op = "register" /\ last'.fail = "none")
     => LET b == last'.req
            d == decodeURIComponent(b.companyName)
            cn == IF d.ok THEN d.val ELSE b.companyName
            present == AllFieldsPresent(b)
            row == FindCompany(Companies, cn)
            t == NamedTable(b)
            checks ==
              <<~present,
                present /\ ~emailRegexTest(b.email),
                present /\ ~phoneRegexTest(b.whatsappNumber),
                IF cn \in DOMAIN sheets THEN SheetRows(sheets[cn]) = <<>> ELSE TRUE,
                row = 0,
                row # 0 /\ At(Companies[row], 6) = "disabled",
                t = <<>>,
                FirstRowDisabled(t),
                present /\ (RowsWith(t, 4, b.email) \cup RowsWith(t, 2, b.whatsappNumber)) # {}>>
            failing == {i \in 1..9 : checks[i]}
            first == FirstIndex(failing)
            answers ==
              <<[status |-> 400, errors |-> {"All fields are required"}],
                [status |-> 400, errors |-> {"Invalid email format"}],
                [status |-> 400, errors |-> {"Invalid WhatsApp number format"}],
                [status |-> 404, errors |-> {"Company \"" \o cn \o "\" not found or inaccessible",
                                            "Company not found"}],
                [status |-> 404, errors |-> {"Company not found in the system"}],
                [status |-> 403, errors |-> {"Company is disabled, registration is not available"}],
                [status |-> 404, errors |-> {"Event \"" \o b.eventName \o "\" not found or inaccessible",
                                            "Event not found"}],
                [status |-> 403, errors |-> {"Event registration is currently disabled"}],
                [status |-> 400, errors |-> {"You are already registered for this event"}]>>
            appended == \E k \in 1..Len(last'.calls) : last'.calls[k] = "addToTable"
        IN /\ first # 0 => (/\ last'.status = answers[first].status
                            /\ last'.error \in answers[first].errors
                            /\ ~appended /\ sheets' = sheets)
           /\ first = 0 => (last'.status = 200 /\ appended)
           /\ first \in 1..3 => last'.calls = <<>>]_vars

\* C25: when the last submission of the registration page was rejected, by
\* the page's own validation or by an error response, the page is not
\* submitting and renders the form with the error in the form's error box.
C25_RejectedSubmissionShowsForm ==
  page.submitted = "rejected" => (~page.submitting /\ ErrorBoxShown(page))

\* C26: a registration that names a company whose row has deleted = 'true'
\* is not answered 200 and appends no row, whichever of POST, PUT and DELETE
\* led to the state.
C26_NoRegistrationForDeleted ==
  [][(/\ last'.op = "register"
      /\ \E i \in 1..Len(Companies) :
           /\ Companies[i][2] = decodeURIComponent(last'.req.companyName).val
           /\ Companies[i][7] = "true")
     => (last'.status # 200 /\ sheets' = sheets)]_vars

\* C27 as claimed: a POST, PUT or DELETE answered 400, 401, 404 or 500
\* leaves the companies table and the set of sheet names as they were.
C27_ErrorLeavesNoTrace ==
  [][(last'.op \in {"POST", "PUT", "DELETE"} /\ last'.status \in {400, 401, 404, 500})
     => (/\ companiesSheet' = companiesSheet /\ companiesData' = companiesData
         /\ DOMAIN sheets' = DOMAIN sheets)]_vars

\* C27, amended: a POST, PUT or DELETE answered 400, 401 or 404, or answered
\* 500 when no write preceded the call that failed, leaves the companies
\* table and the sheets as they were; answered 500 after a write, it leaves
\* the company sheets as they were and the table with what was written: the
\* rows that were there and those POST appended, or one row replaced by PUT
\* or DELETE.
C27_ErrorBeforeFirstWrite ==
  [][(last'.op \in {"POST", "PUT", "DELETE"} /\ last'.status \in {400, 401, 404, 500})
     => LET n == Len(last'.calls)
            priorWrite == \E k \in 1..(n - 1) : last'.calls[k] \in {"createSheet", "appendToSheet", "updateRow", "renameSheet"}
        IN /\ (last'.status # 500 \/ ~priorWrite)
               => UNCHANGED <<companiesSheet, companiesData, sheets>>
           /\ (last'.status = 500 /\ priorWrite)
               => /\ sheets' = sheets
                  /\ last'.op = "POST"
                       => (/\ Len(companiesData') >= Len(companiesData)
                           /\ \A i \in 1..Len(companiesData) :
                                companiesData'[i] = companiesData[i])
                  /\ last'.op \in {"PUT", "DELETE"}
                       => (/\ Len(companiesData') = Len(companiesData)
                           /\ Cardinality({i \in 1..Len(companiesData) :
                                             companiesData'[i] # companiesData[i]}) <= 1)]_vars

\* the write of a row failed for the second of two companies
C27_Witness ==
  /\ last.op = "PUT" /\ last.status = 500 /\ last.fail = "updateRow"
  /\ last.calls = <<"getSheetData", "updateRow">>
  /\ Len(Companies) = 2 /\ Companies[2][1] = last.req.id

\* C28: no two rows of the companies table have the same id, also when the
\* clock shows the same millisecond to two POSTs.
C28_UniqueIds ==
  \A i, j \in 1..Len(Companies) : i # j => Companies[i][1] # Companies[j][1]

\* the row of the company shows the change request q asked for
Reflected(q) ==
  LET i == CompanyIndex(Companies, q.req.id) IN
  /\ i # 0
  /\ q.op = "DELETE" => Companies[i][7] = "true"
  /\ (q.op = "PUT" /\ ~Falsy(q.req.status)) => Companies[i][6] = q.req.status
  /\ (q.op = "PUT" /\ ~Falsy(q.req.username)) => Companies[i][3] = q.req.username

\* every request in flight has been answered
AllAnswered == \A i \in 1..Len(reqs) : reqs[i].pc = "done"

\* C29 as claimed: when the concurrent PUT and DELETE requests for a company
\* have all been answered 200, the company's row shows the change of each,
\* whatever the interleaving of their reads and writes.
C29_NoLostUpdate ==
  (AllAnswered /\ \A i \in 1..Len(reqs) : reqs[i].status = 200)
    => \A i \in 1..Len(reqs) : Reflected(reqs[i])

\* C29, amended: when the requests have all been answered, the row shows the
\* change of every request answered 200 whose write was read by each request
\* that wrote after it; and the row is the one the last write stored, built
\* from what its request had read.
C29_SerialUpdatesKept ==
  AllAnswered
    => /\ \A i \in 1..Len(reqs) :
            (/\ reqs[i].status = 200
             /\ \A j \in 1..Len(reqs) :
                  reqs[j].wrote > reqs[i].wrote => reqs[j].seen >= reqs[i].wrote)
              => Reflected(reqs[i])
       /\ \A j \in 1..Len(reqs) :
            (reqs[j].wrote > 0 /\ reqs[j].wrote = Writes)
              => Companies[reqs[j].idx] = reqs[j].row

\* a status-only PUT and a DELETE, the second reading after the first wrote,
\* were both answered 200
C29_Witness ==
  /\ Len(reqs) = 2 /\ AllAnswered
  /\ reqs[1].status = 200 /\ reqs[2].status = 200
  /\ {reqs[1].op, reqs[2].op} = {"PUT", "DELETE"}
  /\ \E i \in 1..2 : reqs[i].op = "PUT" /\ reqs[i].req.status = "disabled"
  /\ \E i, j \in 1..2 : reqs[i].wrote = 1 /\ reqs[j].wrote = 2 /\ reqs[j].seen = 1
  /\ Companies[1][6] = "disabled" /\ Companies[1][7] = "true"

====
